---- MODULE Spec2Model ----
(***************************************************************************)
(* A model of github.com/tobbstr/fsm (src/fsm.go): a built Specification   *)
(* (transition table, state hooks, parent links, initial substates) and    *)
(* one Machine running Fire, CanFire, IsIn and ActiveHierarchy against it  *)
(* (Spec); two Machines sharing one Specification, their calls interleaved *)
(* step by step (TwoMachinesSpec); the builder that produces a             *)
(* Specification, its transition definitions (TransitionsSpec) and its     *)
(* state definitions (StatesSpec); NewSpecBuilder with counts up to the    *)
(* width of uint (SizesSpec); two Machines whose hooks and actions are     *)
(* deterministic (DetSpec); the traffic light of examples/simple_api       *)
(* (TrafficSpec); MermaidJSDiagram on described transitions (DiagramSpec); *)
(* a Machine on hierarchies within maxDepth with the set of active states  *)
(* tracked through the exit and entry steps (ActiveSpec); New followed by  *)
(* the Machine's calls (NewSpec); and transition definitions whose From,   *)
(* On and To values reach past the declared counts (RangeSpec).            *)
(*                                                                         *)
(* Guards, actions and hooks are opaque callables.  A guard is a           *)
(* deterministic function of the data argument: it passes exactly when     *)
(* the data is "good", and the error it reports for "lost" data wraps      *)
(* ErrNotFound.  An action or a hook may report an error at any            *)
(* invocation.                                                             *)
(***************************************************************************)
EXTENDS Integers, Sequences, FiniteSets

VARIABLES
    stateCount,     \* Spec.stateCount
    triggerCount,   \* Spec.triggerCount
    transitions,    \* Spec.transitions, indexed 0 .. stateCount*triggerCount-1
    stateHooks,     \* Spec.stateHooks, indexed by state
    stateParents,   \* Spec.stateParents, indexed by state (NoState = nil)
    initialStates,  \* Spec.initialStates, indexed by state (NoState = nil)
    state,          \* Machine.state
    pc,             \* where the machine's caller is: "idle" or inside Fire
    frame,          \* the local variables of the running Fire
    call,           \* the last call started: operation, arguments, State() before
    ret,            \* what the last call returned ("pending" while it runs)
    trace,          \* the callables invoked by the last call, in order
    other,          \* the second Machine of the Specification, while the first runs
    oracle,         \* the hooks and actions that report an error, where they are deterministic
    descriptions,   \* Transition.GuardDescription and ActionDescription, by table index
    active,         \* the states entered and not exited since New, where they are tracked
    builder,        \* the specBuilder
    sbs,            \* the stateBuilder objects handed out by State(), by handle
    tbs,            \* the transitionToBuilder objects handed out by To(), by handle
    built,          \* what the calls of Build() did
    ncalls,         \* the number of builder calls made
    made            \* the call of NewSpecBuilder: its arguments and its outcome

builderVars == <<builder, sbs, tbs, built, ncalls, made>>

machineVars == <<stateCount, triggerCount, transitions, stateHooks, stateParents,
                 initialStates, state, pc, frame, call, ret, trace, other, oracle, descriptions,
                 active>>

vars == <<machineVars, builderVars>>

\* What no operation of a Machine touches.
specVars == <<stateCount, triggerCount, transitions, stateHooks, stateParents,
              initialStates, other, oracle, descriptions, builderVars>>

(***************************************************************************)
(* Program constants and model bounds.                                     *)
(***************************************************************************)
maxDepth == 10

NoState == -1

\* States of the specifications with an arbitrary forest as hierarchy.
NumStates == 3

\* States of the specifications whose hierarchy is one chain; more than maxDepth.
ChainStates == 11

\* Triggers of every specification.
NumTriggers == 2

\* The width of uint, scaled down: the counts, their product and the table
\* index are computed modulo 2^UintBits.
UintBits == 6

UintSize == 2 ^ UintBits

\* The longest slice make allocates; a longer one panics (makeslice: len out
\* of range), as does one the memory cannot hold.
MaxSliceLen == 2 ^ (UintBits - 2)

States == 0 .. (stateCount - 1)
Triggers == 0 .. (triggerCount - 1)
\* The data handed to Fire and CanFire, as far as a guard tells it apart.
Data == {"good", "bad", "lost"}

ErrNotFound == "ErrNotFound"
ErrTransitionRejected == "ErrTransitionRejected"

(***************************************************************************)
(* Pure helpers of the source.                                             *)
(***************************************************************************)
transitionIndex(from, trigger, numTrigger) == (from * numTrigger + trigger) % UintSize

\* The zero value Transition[S, D]{}.
NoTransition == [Valid |-> FALSE, Next |-> 0, Guard |-> FALSE, Action |-> FALSE]

\* findTransition without the test of Valid: the zero entry is a transition.
findTransition_AnyEntry(trigger, st) ==
    [trans |-> transitions[transitionIndex(st, trigger, triggerCount)], err |-> "nil"]

\* findTransition: the table entry and the error (NoState-free: "nil" or ErrNotFound).
findTransition(trigger, st) ==
    LET trans == transitions[transitionIndex(st, trigger, triggerCount)]
    IN  IF ~trans.Valid
        THEN [trans |-> NoTransition, err |-> ErrNotFound]
        ELSE [trans |-> trans, err |-> "nil"]

\* readHierarchy going one state beyond the bound.
RECURSIVE readHierarchyLoop_OneMore(_, _, _)
readHierarchyLoop_OneMore(next, i, hierarchy) ==
    IF next # NoState /\ i <= maxDepth
    THEN readHierarchyLoop_OneMore(stateParents[next], i + 1, Append(hierarchy, next))
    ELSE hierarchy

\* readHierarchy: the loop from index i with `next` the state to store; the
\* result is the slice hierarchy[:i].
RECURSIVE readHierarchyLoop(_, _, _)
readHierarchyLoop(next, i, hierarchy) ==
    IF next # NoState /\ i < maxDepth
    THEN readHierarchyLoop(stateParents[next], i + 1, Append(hierarchy, next))
    ELSE hierarchy

readHierarchy(fromState) == readHierarchyLoop(fromState, 0, <<>>)

\* slices.Contains
Contains(seq, x) == \E k \in 1 .. Len(seq) : seq[k] = x

\* Go indexes slices from 0.
At(seq, k) == seq[k + 1]

(***************************************************************************)
(* Errors.  An error value is modelled by where Fire built it (site) and   *)
(* by the set of sentinels errors.Is finds in its chain (is).              *)
(***************************************************************************)
Sentinels == {ErrNotFound, ErrTransitionRejected}

\* The errors a hook or an action may report: one unrelated to this package,
\* or one that wraps a sentinel of this package (e.g. the error of a nested Fire).
CallableErrors == {{}, {ErrNotFound}, {ErrTransitionRejected}}

\* A guard's verdict: guards are deterministic in the data.
GuardFails(data) == data # "good"

\* The sentinels the error of a failing guard wraps: none, or ErrNotFound
\* (e.g. a guard that reports a failed lookup of its own).
GuardError(data) == IF data = "lost" THEN {ErrNotFound} ELSE {}

Pending == [site |-> "pending", is |-> {}]
NilError == [site |-> "nil", is |-> {}]

\* The bool a query returns.
Bool(b) == [site |-> IF b THEN "true" ELSE "false", is |-> {}]

\* fmt.Errorf("finding transition ...: %w", err) with err = ErrNotFound
NotFoundError == [site |-> "find", is |-> {ErrNotFound}]

\* errors.Join(ErrTransitionRejected, fmt.Errorf("rejecting ...: %w", err))
RejectedError(cause) == [site |-> "guard", is |-> {ErrTransitionRejected} \cup cause]

\* fmt.Errorf("invoking ...: %w", err) at the named site
WrappedError(site, cause) == [site |-> site, is |-> cause]

(***************************************************************************)
(* Fire: the least common ancestor (lines 445-462).                        *)
(***************************************************************************)
NoIndex == -1

Min(S) == CHOOSE x \in S : \A y \in S : x <= y

Max(S) == CHOOSE x \in S : \A y \in S : x >= y

\* findLCA keeping the last common state found (the loops without the break).
findLCA_Farthest(sourceStates, targetStates) ==
    LET hits == {i \in 1 .. (Len(sourceStates) - 1) :
                    Contains(targetStates, At(sourceStates, i))}
    IN  IF hits = {}
        THEN [lca |-> NoState, lcaTargetStatesIdx |-> NoIndex]
        ELSE LET i == Max(hits)
                 j == Max({k \in 0 .. (Len(targetStates) - 1) :
                              At(targetStates, k) = At(sourceStates, i)})
             IN  [lca |-> At(sourceStates, i), lcaTargetStatesIdx |-> j]

findLCA(sourceStates, targetStates) ==
    LET hits == {i \in 1 .. (Len(sourceStates) - 1) :
                    Contains(targetStates, At(sourceStates, i))}
    IN  IF hits = {}
        THEN [lca |-> NoState, lcaTargetStatesIdx |-> NoIndex]
        ELSE LET i == Min(hits)
                 j == Min({k \in 0 .. (Len(targetStates) - 1) :
                              At(targetStates, k) = At(sourceStates, i)})
             IN  [lca |-> At(sourceStates, i), lcaTargetStatesIdx |-> j]

\* startIdx without the LCA: the entry loop always starts at the root end.
startIdx_FromRoot(lcaTargetStatesIdx, targetStates) ==
    Len(targetStates) - 1

\* startIdx of the entry loop (lines 489-494).
startIdx(lcaTargetStatesIdx, targetStates) ==
    IF lcaTargetStatesIdx # NoIndex
    THEN lcaTargetStatesIdx
    ELSE Len(targetStates) - 1

(***************************************************************************)
(* The hierarchy as the parent links give it.                              *)
(***************************************************************************)
\* The k-th ancestor of s (s itself for k = 0), NoState when there is none.
RECURSIVE Anc(_, _)
Anc(s, k) ==
    IF k = 0
    THEN s
    ELSE LET a == Anc(s, k - 1)
         IN  IF a = NoState THEN NoState ELSE stateParents[a]

AncestorsOrSelf(s) == {Anc(s, k) : k \in 0 .. stateCount} \ {NoState}

(***************************************************************************)
(* The machine.                                                            *)
(***************************************************************************)
NoFrame == [trigger |-> 0, data |-> "good", st |-> 0, transition |-> NoTransition,
            sourceStates |-> <<>>, targetStates |-> <<>>, lca |-> NoState,
            lcaTargetStatesIdx |-> NoIndex, i |-> 0]

NoCall == [op |-> "New", trigger |-> 0, data |-> "good", arg |-> 0, before |-> 0,
           can |-> "none"]

\* What the caller learnt from CanFire when the call just completed was
\* CanFire(trigger, data) in the present state: "true" or "false", else "none".
JustAsked(trigger, data) ==
    IF call.op = "CanFire" /\ call.trigger = trigger /\ call.data = data
    THEN ret.site
    ELSE "none"

\* A callable was invoked for state s while State() returned cur, and
\* returned nil.
Event(kind, s) == [kind |-> kind, s |-> s, cur |-> state, failed |-> FALSE, err |-> {}]

\* A callable was invoked and returned an error: err is what errors.Is
\* finds in that error.
Failed(kind, s, e) == [kind |-> kind, s |-> s, cur |-> state, failed |-> TRUE, err |-> e]

\* The active states are not tracked.
NoActive == [all |-> {NoState}, fire |-> {NoState}, exited |-> {}, entered |-> {}]

\* The active states, tracked: all, since New; fire, since the last call of
\* Fire, which starts from the ancestor chain of the current state; exited
\* and entered, the states the exit and entry steps of that call ran for.
Tracked(set) == [all |-> set, fire |-> set, exited |-> {}, entered |-> {}]

\* Fire is called.
StartFire ==
    active' = IF active = NoActive
              THEN active
              ELSE [all |-> active.all, fire |-> AncestorsOrSelf(state),
                    exited |-> {}, entered |-> {}]

\* The exit step of Fire runs for s (lines 467-475).
Leave(s) ==
    active' = IF active = NoActive
              THEN active
              ELSE [all |-> active.all \ {s}, fire |-> active.fire \ {s},
                    exited |-> active.exited \cup {s}, entered |-> active.entered]

\* The entry step of Fire runs for s (lines 497-505 and 509-516).
Enter(s) ==
    active' = IF active = NoActive
              THEN active
              ELSE [all |-> active.all \cup {s}, fire |-> active.fire \cup {s},
                    exited |-> active.exited, entered |-> active.entered \cup {s}]

\* No second Machine.
NoMachine == [id |-> 0, state |-> 0, pc |-> "idle", frame |-> NoFrame, call |-> NoCall,
              ret |-> NilError, trace |-> <<>>, active |-> NoActive]

Return(value) ==
    /\ pc' = "idle"
    /\ frame' = NoFrame
    /\ ret' = value

\* Fire is called (line 411-413): state := m.state.
FireCall(trigger, data) ==
    /\ pc = "idle"
    /\ pc' = "fire_find"
    /\ frame' = [NoFrame EXCEPT !.trigger = trigger, !.data = data, !.st = state]
    /\ call' = [NoCall EXCEPT !.op = "Fire", !.trigger = trigger, !.data = data,
                               !.before = state, !.can = JustAsked(trigger, data)]
    /\ ret' = Pending
    /\ trace' = <<>>
    /\ StartFire
    /\ UNCHANGED <<specVars, state>>

\* FireFind with the guard's error dropped: the transition goes ahead.
FireFind_GuardIgnored ==
    /\ pc = "fire_find"
    /\ LET found == findTransition(frame.trigger, frame.st)
           parent == stateParents[frame.st]
       IN  \/ /\ found.err # "nil"
              /\ parent # NoState
              /\ frame' = [frame EXCEPT !.st = parent]
              /\ UNCHANGED <<pc, ret, trace>>
           \/ /\ found.err # "nil"
              /\ parent = NoState
              /\ Return(NotFoundError)
              /\ UNCHANGED trace
           \/ /\ found.err = "nil"
              /\ trace' = IF found.trans.Guard
                          THEN Append(trace, Event("Guard", frame.st))
                          ELSE trace
              /\ LET sourceStates == readHierarchy(state)
                     targetStates == readHierarchy(found.trans.Next)
                     l == findLCA(sourceStates, targetStates)
                 IN  frame' = [frame EXCEPT !.transition = found.trans,
                                            !.sourceStates = sourceStates,
                                            !.targetStates = targetStates,
                                            !.lca = l.lca,
                                            !.lcaTargetStatesIdx = l.lcaTargetStatesIdx,
                                            !.i = 0]
              /\ pc' = "fire_exit"
              /\ UNCHANGED ret
    /\ UNCHANGED <<specVars, state, call, active>>

\* FireFind going on to the parent when the guard rejects: a transition
\* declared higher up gets its turn.
FireFind_PastRejection ==
    /\ pc = "fire_find"
    /\ LET found == findTransition(frame.trigger, frame.st)
           parent == stateParents[frame.st]
       IN  \/ /\ found.err # "nil"
              /\ parent # NoState
              /\ frame' = [frame EXCEPT !.st = parent]
              /\ UNCHANGED <<pc, ret, trace>>
           \/ /\ found.err # "nil"
              /\ parent = NoState
              /\ Return(NotFoundError)
              /\ UNCHANGED trace
           \/ /\ found.err = "nil"
              /\ found.trans.Guard
              /\ GuardFails(frame.data)
              /\ trace' = Append(trace, Failed("Guard", frame.st, GuardError(frame.data)))
              /\ IF parent # NoState
                 THEN /\ frame' = [frame EXCEPT !.st = parent]
                      /\ UNCHANGED <<pc, ret>>
                 ELSE Return(RejectedError(GuardError(frame.data)))
           \/ /\ found.err = "nil"
              /\ ~(found.trans.Guard /\ GuardFails(frame.data))
              /\ trace' = IF found.trans.Guard
                          THEN Append(trace, Event("Guard", frame.st))
                          ELSE trace
              /\ LET sourceStates == readHierarchy(state)
                     targetStates == readHierarchy(found.trans.Next)
                     l == findLCA(sourceStates, targetStates)
                 IN  frame' = [frame EXCEPT !.transition = found.trans,
                                            !.sourceStates = sourceStates,
                                            !.targetStates = targetStates,
                                            !.lca = l.lca,
                                            !.lcaTargetStatesIdx = l.lcaTargetStatesIdx,
                                            !.i = 0]
              /\ pc' = "fire_exit"
              /\ UNCHANGED ret
    /\ UNCHANGED <<specVars, state, call, active>>

\* One iteration of the bubbling loop (lines 414-437), followed on success by
\* the hierarchy capture and the LCA computation (lines 445-462).
FireFind ==
    /\ pc = "fire_find"
    /\ LET found == findTransition(frame.trigger, frame.st)
           parent == stateParents[frame.st]
       IN  \/ /\ found.err # "nil"
              /\ parent # NoState
              /\ frame' = [frame EXCEPT !.st = parent]
              /\ UNCHANGED <<pc, ret, trace>>
           \/ /\ found.err # "nil"
              /\ parent = NoState
              /\ Return(NotFoundError)
              /\ UNCHANGED trace
           \/ /\ found.err = "nil"
              /\ found.trans.Guard
              /\ GuardFails(frame.data)
              /\ trace' = Append(trace, Failed("Guard", frame.st, GuardError(frame.data)))
              /\ Return(RejectedError(GuardError(frame.data)))
           \/ /\ found.err = "nil"
              /\ ~(found.trans.Guard /\ GuardFails(frame.data))
              /\ trace' = IF found.trans.Guard
                          THEN Append(trace, Event("Guard", frame.st))
                          ELSE trace
              /\ LET sourceStates == readHierarchy(state)
                     targetStates == readHierarchy(found.trans.Next)
                     l == findLCA(sourceStates, targetStates)
                 IN  frame' = [frame EXCEPT !.transition = found.trans,
                                            !.sourceStates = sourceStates,
                                            !.targetStates = targetStates,
                                            !.lca = l.lca,
                                            !.lcaTargetStatesIdx = l.lcaTargetStatesIdx,
                                            !.i = 0]
              /\ pc' = "fire_exit"
              /\ UNCHANGED ret
    /\ UNCHANGED <<specVars, state, call, active>>

\* One iteration of the exit loop (lines 466-476).
FireExit ==
    /\ pc = "fire_exit"
    /\ LET done == frame.i >= Len(frame.sourceStates)
           s == At(frame.sourceStates, frame.i)
       IN  \/ /\ done \/ (frame.lca # NoState /\ s = frame.lca)
              /\ pc' = "fire_action"
              /\ UNCHANGED <<frame, ret, trace, active>>
           \/ /\ ~done
              /\ ~(frame.lca # NoState /\ s = frame.lca)
              /\ ~stateHooks[s].OnExit
              /\ frame' = [frame EXCEPT !.i = frame.i + 1]
              /\ Leave(s)
              /\ UNCHANGED <<pc, ret, trace>>
           \/ /\ ~done
              /\ ~(frame.lca # NoState /\ s = frame.lca)
              /\ stateHooks[s].OnExit
              /\ Leave(s)
              /\ \/ /\ trace' = Append(trace, Event("OnExit", s))
                    /\ frame' = [frame EXCEPT !.i = frame.i + 1]
                    /\ UNCHANGED <<pc, ret>>
                 \/ \E e \in CallableErrors :
                       /\ trace' = Append(trace, Failed("OnExit", s, e))
                       /\ Return(WrappedError("OnExit", e))
    /\ UNCHANGED <<specVars, state, call>>

\* FireAction with the action's error dropped: the entry phase follows.
FireAction_Proceeds ==
    /\ pc = "fire_action"
    /\ LET enter == /\ pc' = "fire_entry"
                    /\ frame' = [frame EXCEPT
                           !.i = startIdx(frame.lcaTargetStatesIdx, frame.targetStates)]
                    /\ UNCHANGED ret
       IN  \/ /\ ~frame.transition.Action
              /\ enter
              /\ UNCHANGED trace
           \/ /\ frame.transition.Action
              /\ \/ /\ trace' = Append(trace, Event("Action", frame.st))
                    /\ enter
                 \/ \E e \in CallableErrors :
                       /\ trace' = Append(trace, Failed("Action", frame.st, e))
                       /\ enter
    /\ UNCHANGED <<specVars, state, call, active>>

\* The transition's action (lines 479-483), then startIdx (lines 489-494).
FireAction ==
    /\ pc = "fire_action"
    /\ LET enter == /\ pc' = "fire_entry"
                    /\ frame' = [frame EXCEPT
                           !.i = startIdx(frame.lcaTargetStatesIdx, frame.targetStates)]
                    /\ UNCHANGED ret
       IN  \/ /\ ~frame.transition.Action
              /\ enter
              /\ UNCHANGED trace
           \/ /\ frame.transition.Action
              /\ \/ /\ trace' = Append(trace, Event("Action", frame.st))
                    /\ enter
                 \/ \E e \in CallableErrors :
                       /\ trace' = Append(trace, Failed("Action", frame.st, e))
                       /\ Return(WrappedError("Action", e))
    /\ UNCHANGED <<specVars, state, call, active>>

\* FireEntry walking the target chain leaf first: the target is entered
\* before its ancestors.
FireEntry_LeafFirst ==
    /\ pc = "fire_entry"
    /\ LET done == frame.i < 0
           s == At(frame.targetStates,
                   startIdx(frame.lcaTargetStatesIdx, frame.targetStates) - frame.i)
           isLCA == frame.lca # NoState /\ s = frame.lca
       IN  \/ /\ done
              /\ pc' = "fire_initial"
              /\ UNCHANGED <<frame, ret, trace, active>>
           \/ /\ ~done
              /\ isLCA \/ ~stateHooks[s].OnEntry
              /\ frame' = [frame EXCEPT !.i = frame.i - 1]
              /\ IF isLCA THEN UNCHANGED active ELSE Enter(s)
              /\ UNCHANGED <<pc, ret, trace>>
           \/ /\ ~done
              /\ ~isLCA
              /\ stateHooks[s].OnEntry
              /\ Enter(s)
              /\ \/ /\ trace' = Append(trace, Event("OnEntry", s))
                    /\ frame' = [frame EXCEPT !.i = frame.i - 1]
                    /\ UNCHANGED <<pc, ret>>
                 \/ \E e \in CallableErrors :
                       /\ trace' = Append(trace, Failed("OnEntry", s, e))
                       /\ Return(WrappedError("OnEntry", e))
    /\ UNCHANGED <<specVars, state, call>>

\* One iteration of the entry loop (lines 495-506).
FireEntry ==
    /\ pc = "fire_entry"
    /\ LET done == frame.i < 0
           s == At(frame.targetStates, frame.i)
           isLCA == frame.lca # NoState /\ s = frame.lca
       IN  \/ /\ done
              /\ pc' = "fire_initial"
              /\ UNCHANGED <<frame, ret, trace, active>>
           \/ /\ ~done
              /\ isLCA \/ ~stateHooks[s].OnEntry
              /\ frame' = [frame EXCEPT !.i = frame.i - 1]
              /\ IF isLCA THEN UNCHANGED active ELSE Enter(s)
              /\ UNCHANGED <<pc, ret, trace>>
           \/ /\ ~done
              /\ ~isLCA
              /\ stateHooks[s].OnEntry
              /\ Enter(s)
              /\ \/ /\ trace' = Append(trace, Event("OnEntry", s))
                    /\ frame' = [frame EXCEPT !.i = frame.i - 1]
                    /\ UNCHANGED <<pc, ret>>
                 \/ \E e \in CallableErrors :
                       /\ trace' = Append(trace, Failed("OnEntry", s, e))
                       /\ Return(WrappedError("OnEntry", e))
    /\ UNCHANGED <<specVars, state, call>>

\* FireCommit without the initial substate: the target is committed.
FireCommit_TargetOnly ==
    /\ pc = "fire_initial"
    /\ state' = frame.transition.Next
    /\ Return(NilError)
    /\ UNCHANGED <<trace, active>>
    /\ UNCHANGED <<specVars, call>>

\* FireCommit with m.state assigned before the initial substate's hook runs.
FireCommit_AssignsFirst ==
    /\ pc = "fire_initial"
    /\ LET intialSubstate == initialStates[frame.transition.Next]
       IN  \/ /\ intialSubstate # NoState
              /\ ~stateHooks[intialSubstate].OnEntry
              /\ state' = intialSubstate
              /\ Return(NilError)
              /\ Enter(intialSubstate)
              /\ UNCHANGED trace
           \/ /\ intialSubstate # NoState
              /\ stateHooks[intialSubstate].OnEntry
              /\ Enter(intialSubstate)
              /\ state' = intialSubstate
              /\ \/ /\ trace' = Append(trace, Event("InitialOnEntry", intialSubstate))
                    /\ Return(NilError)
                 \/ \E e \in CallableErrors :
                       /\ trace' = Append(trace, Failed("InitialOnEntry", intialSubstate, e))
                       /\ Return(WrappedError("InitialOnEntry", e))
           \/ /\ intialSubstate = NoState
              /\ state' = frame.transition.Next
              /\ Return(NilError)
              /\ UNCHANGED <<trace, active>>
    /\ UNCHANGED <<specVars, call>>

\* FireCommit committing the target or its initial substate, either one.
FireCommit_EitherState ==
    /\ pc = "fire_initial"
    /\ LET intialSubstate == initialStates[frame.transition.Next]
       IN  \/ /\ intialSubstate # NoState
              /\ ~stateHooks[intialSubstate].OnEntry
              /\ state' \in {intialSubstate, frame.transition.Next}
              /\ Return(NilError)
              /\ Enter(intialSubstate)
              /\ UNCHANGED trace
           \/ /\ intialSubstate # NoState
              /\ stateHooks[intialSubstate].OnEntry
              /\ Enter(intialSubstate)
              /\ \/ /\ trace' = Append(trace, Event("InitialOnEntry", intialSubstate))
                    /\ state' \in {intialSubstate, frame.transition.Next}
                    /\ Return(NilError)
                 \/ /\ \E e \in CallableErrors :
                          /\ trace' = Append(trace, Failed("InitialOnEntry", intialSubstate, e))
                          /\ Return(WrappedError("InitialOnEntry", e))
                    /\ UNCHANGED state
           \/ /\ intialSubstate = NoState
              /\ state' = frame.transition.Next
              /\ Return(NilError)
              /\ UNCHANGED <<trace, active>>
    /\ UNCHANGED <<specVars, call>>

FireCommit_AllMachines ==
    /\ pc = "fire_initial"
    /\ LET intialSubstate == initialStates[frame.transition.Next]
           final == IF intialSubstate # NoState THEN intialSubstate ELSE frame.transition.Next
       IN  /\ state' = final
           /\ other' = [other EXCEPT !.state = final]
    /\ Return(NilError)
    /\ UNCHANGED <<stateCount, triggerCount, transitions, stateHooks, stateParents,
                   initialStates, oracle, descriptions, builderVars, trace, call,
                   active>>

\* The initial substate of s, and so on, as far down as one is declared.
RECURSIVE DeepestFrom(_, _)
DeepestFrom(s, fuel) ==
    IF fuel = 0 \/ initialStates[s] = NoState
    THEN s
    ELSE DeepestFrom(initialStates[s], fuel - 1)

Deepest(s) == DeepestFrom(s, stateCount)

\* FireCommit resolving initial substates all the way down.
FireCommit_Deepest ==
    /\ pc = "fire_initial"
    /\ LET intialSubstate == initialStates[frame.transition.Next]
       IN  \/ /\ intialSubstate # NoState
              /\ ~stateHooks[intialSubstate].OnEntry
              /\ state' = Deepest(intialSubstate)
              /\ Return(NilError)
              /\ Enter(intialSubstate)
              /\ UNCHANGED trace
           \/ /\ intialSubstate # NoState
              /\ stateHooks[intialSubstate].OnEntry
              /\ Enter(intialSubstate)
              /\ \/ /\ trace' = Append(trace, Event("InitialOnEntry", intialSubstate))
                    /\ state' = Deepest(intialSubstate)
                    /\ Return(NilError)
                 \/ /\ \E e \in CallableErrors :
                          /\ trace' = Append(trace, Failed("InitialOnEntry", intialSubstate, e))
                          /\ Return(WrappedError("InitialOnEntry", e))
                    /\ UNCHANGED state
           \/ /\ intialSubstate = NoState
              /\ state' = frame.transition.Next
              /\ Return(NilError)
              /\ UNCHANGED <<trace, active>>
    /\ UNCHANGED <<specVars, call>>

\* The initial substate and the commit (lines 508-523).
FireCommit ==
    /\ pc = "fire_initial"
    /\ LET intialSubstate == initialStates[frame.transition.Next]
       IN  \/ /\ intialSubstate # NoState
              /\ ~stateHooks[intialSubstate].OnEntry
              /\ state' = intialSubstate
              /\ Return(NilError)
              /\ Enter(intialSubstate)
              /\ UNCHANGED trace
           \/ /\ intialSubstate # NoState
              /\ stateHooks[intialSubstate].OnEntry
              /\ Enter(intialSubstate)
              /\ \/ /\ trace' = Append(trace, Event("InitialOnEntry", intialSubstate))
                    /\ state' = intialSubstate
                    /\ Return(NilError)
                 \/ /\ \E e \in CallableErrors :
                          /\ trace' = Append(trace, Failed("InitialOnEntry", intialSubstate, e))
                          /\ Return(WrappedError("InitialOnEntry", e))
                    /\ UNCHANGED state
           \/ /\ intialSubstate = NoState
              /\ state' = frame.transition.Next
              /\ Return(NilError)
              /\ UNCHANGED <<trace, active>>
    /\ UNCHANGED <<specVars, call>>

\* CanFire is called (lines 530-531): state := m.state.
CanFireCall(trigger, data) ==
    /\ pc = "idle"
    /\ pc' = "can_find"
    /\ frame' = [NoFrame EXCEPT !.trigger = trigger, !.data = data, !.st = state]
    /\ call' = [NoCall EXCEPT !.op = "CanFire", !.trigger = trigger, !.data = data,
                               !.before = state, !.can = JustAsked(trigger, data)]
    /\ ret' = Pending
    /\ trace' = <<>>
    /\ UNCHANGED <<specVars, state, active>>

\* CanFireFind performing the transition it finds acceptable.
CanFireFind_Commits ==
    /\ pc = "can_find"
    /\ LET found == findTransition(frame.trigger, frame.st)
           parent == stateParents[frame.st]
       IN  \/ /\ found.err # "nil"
              /\ parent # NoState
              /\ frame' = [frame EXCEPT !.st = parent]
              /\ UNCHANGED <<pc, ret, trace, state>>
           \/ /\ found.err # "nil"
              /\ parent = NoState
              /\ Return(Bool(FALSE))
              /\ UNCHANGED <<trace, state>>
           \/ /\ found.err = "nil"
              /\ found.trans.Guard
              /\ trace' = Append(trace, IF GuardFails(frame.data)
                                         THEN Failed("Guard", frame.st, GuardError(frame.data))
                                         ELSE Event("Guard", frame.st))
              /\ Return(Bool(~GuardFails(frame.data)))
              /\ state' = IF GuardFails(frame.data) THEN state ELSE found.trans.Next
           \/ /\ found.err = "nil"
              /\ ~found.trans.Guard
              /\ Return(Bool(TRUE))
              /\ state' = found.trans.Next
              /\ UNCHANGED trace
    /\ UNCHANGED <<specVars, call, active>>

\* One iteration of CanFire's loop (lines 532-553).
CanFireFind ==
    /\ pc = "can_find"
    /\ LET found == findTransition(frame.trigger, frame.st)
           parent == stateParents[frame.st]
       IN  \/ /\ found.err # "nil"
              /\ parent # NoState
              /\ frame' = [frame EXCEPT !.st = parent]
              /\ UNCHANGED <<pc, ret, trace>>
           \/ /\ found.err # "nil"
              /\ parent = NoState
              /\ Return(Bool(FALSE))
              /\ UNCHANGED trace
           \/ /\ found.err = "nil"
              /\ found.trans.Guard
              /\ trace' = Append(trace, IF GuardFails(frame.data)
                                         THEN Failed("Guard", frame.st, GuardError(frame.data))
                                         ELSE Event("Guard", frame.st))
              /\ Return(Bool(~GuardFails(frame.data)))
           \/ /\ found.err = "nil"
              /\ ~found.trans.Guard
              /\ Return(Bool(TRUE))
              /\ UNCHANGED trace
    /\ UNCHANGED <<specVars, state, call, active>>

\* ActiveHierarchy (lines 391-396): the value a call would return now.
ActiveHierarchy == readHierarchy(state)

\* The slice ActiveHierarchy returns.
Hierarchy(h) == [site |-> "hierarchy", is |-> {}, states |-> h]

\* ActiveHierarchy is called (lines 391-396).
ActiveHierarchyCall ==
    /\ pc = "idle"
    /\ call' = [NoCall EXCEPT !.op = "ActiveHierarchy", !.before = state]
    /\ ret' = Hierarchy(readHierarchy(state))
    /\ trace' = <<>>
    /\ UNCHANGED <<specVars, state, pc, frame, active>>

\* IsIn (lines 399-403).
IsIn(s) ==
    /\ pc = "idle"
    /\ call' = [NoCall EXCEPT !.op = "IsIn", !.arg = s, !.before = state]
    /\ ret' = Bool(Contains(readHierarchy(state), s))
    /\ trace' = <<>>
    /\ UNCHANGED <<specVars, state, pc, frame, active>>

(***************************************************************************)
(* The specifications a machine runs against: what Build returns.          *)
(***************************************************************************)
\* The check of the initial substates without its nil test.
BuildAccepts_NilParent(n, parents, initials) ==
    \A stateWithInitialState \in 0 .. (n - 1) :
        LET initialState == initials[stateWithInitialState]
        IN  initialState # NoState =>
                \/ parents[initialState] = NoState
                \/ parents[initialState] = stateWithInitialState

\* Build's check of the initial substates (lines 146-157): no panic.
BuildAccepts(n, parents, initials) ==
    \A stateWithInitialState \in 0 .. (n - 1) :
        LET initialState == initials[stateWithInitialState]
        IN  initialState # NoState =>
                /\ parents[initialState] # NoState
                /\ parents[initialState] = stateWithInitialState

\* done keeping the guard and the action of the entry it replaces when the
\* new definition has none.
RECURSIVE doneAll_Merging(_, _, _)
doneAll_Merging(table, decls, numTrigger) ==
    IF decls = <<>>
    THEN table
    ELSE LET tb == Head(decls)
             idx == transitionIndex(tb.from, tb.trigger, numTrigger)
         IN  doneAll_Merging(
                 [table EXCEPT ![idx] = [Valid |-> TRUE, Next |-> tb.to,
                                         Guard |-> tb.guard \/ table[idx].Guard,
                                         Action |-> tb.action \/ table[idx].Action]],
                 Tail(decls), numTrigger)

\* transitionToBuilder.done (lines 265-277) for each declared transition, in
\* the order of the sequence.
RECURSIVE doneAll(_, _, _)
doneAll(table, decls, numTrigger) ==
    IF decls = <<>>
    THEN table
    ELSE LET tb == Head(decls)
             idx == transitionIndex(tb.from, tb.trigger, numTrigger)
         IN  doneAll([table EXCEPT ![idx] = [Valid |-> TRUE, Next |-> tb.to,
                                               Guard |-> tb.guard, Action |-> tb.action]],
                     Tail(decls), numTrigger)

\* NewSpecBuilder's table (line 102): numStates*numTriggers zero values.
EmptyTable(numStates, numTriggers) ==
    [idx \in 0 .. (((numStates * numTriggers) % UintSize) - 1) |-> NoTransition]

\* Hierarchies: every forest over n states numbered children first.
ForestParents(n) ==
    {p \in [0 .. (n - 1) -> (0 .. (n - 1)) \cup {NoState}] :
        \A s \in 0 .. (n - 1) : p[s] = NoState \/ p[s] > s}

\* Hierarchies: one chain 0 -> 1 -> ... -> n-1 whose last state is a root,
\* the child of state 0 (one cycle), the child of its own child (a cycle of
\* two above the chain) or its own parent.
ChainParents(n) ==
    {[s \in 0 .. (n - 1) |-> IF s < n - 1 THEN s + 1 ELSE r] :
        r \in {NoState, 0, n - 2, n - 1}}

\* The hierarchy of examples/hierarchical_states: Root(0) - Parent(1) -
\* {ChildA(2) - GrandchildA(3), ChildB(4) - GrandchildB(5)}.
ExampleParents == <<NoState, 0, 1, 2, 1, 4>>

ExampleHierarchy == [s \in 0 .. (Len(ExampleParents) - 1) |-> At(ExampleParents, s)]

\* A scenario: a hierarchy, the states its declared transitions may start
\* from (froms) and lead to (tos), the states that may lack hooks (bare),
\* whether a second transition from the last state is declared (only when
\* every state has its hooks), and the states New may be given (starts).
Scenarios ==
    {[n |-> NumStates, parents |-> p, froms |-> {0, 1, NumStates - 1},
      tos |-> {0, 1, NumStates - 1}, bare |-> {NoState, 0, 1}, second |-> BOOLEAN,
      starts |-> {0, 1, NumStates - 1}] :
        p \in ForestParents(NumStates)}
    \cup {[n |-> ChainStates, parents |-> p, froms |-> {0, ChainStates - 1},
           tos |-> {0, ChainStates - 1}, bare |-> {NoState}, second |-> {FALSE},
           starts |-> 0 .. (ChainStates - 1)] :
        p \in ChainParents(ChainStates)}
    \cup {[n |-> Len(ExampleParents), parents |-> ExampleHierarchy, froms |-> {1, 2, 3},
           tos |-> {1, 3, 4, 5}, bare |-> {NoState}, second |-> {FALSE},
           starts |-> 0 .. (Len(ExampleParents) - 1)]}

\* The declared transitions, in declaration order: one on the last trigger,
\* guarded and with an action unless it starts from the bare state, and
\* optionally a later one from the last state on the same trigger.
Declarations(sc, m, u) ==
    LET first == {[from |-> a, trigger |-> m - 1, to |-> b, guard |-> a # u, action |-> a # u] :
                     a \in sc.froms, b \in sc.tos}
        last == [from |-> sc.n - 1, trigger |-> m - 1, to |-> 0, guard |-> FALSE, action |-> TRUE]
    IN  {IF two THEN <<d, last>> ELSE <<d>> : d \in first, two \in sc.second}

(***************************************************************************)
(* The builder.  Handles are numbered from 1 in the order they are handed  *)
(* out; the caller keeps every handle.  A guard, an action or a hook is    *)
(* present (TRUE) or nil (FALSE).  A pointer into a stateBuilder           *)
(* (&sb.parent, &sb.initialState) is the handle of that stateBuilder, and  *)
(* NoRef is the nil pointer.                                               *)
(***************************************************************************)
NoRef == 0

\* States, stateBuilders, transition definitions and transitionToBuilders of
\* a builder run.
MaxHandles == 2

\* Builder calls of a builder run.
MaxCalls == 6

\* NewSpecBuilder (lines 94-107).
NewSpecBuilder(numStates, numTriggers) ==
    [stateCount |-> numStates,
     triggerCount |-> numTriggers,
     transitions |-> EmptyTable(numStates, numTriggers),
     stateHooks |-> [s \in 0 .. (numStates - 1) |-> [OnEntry |-> FALSE, OnExit |-> FALSE]],
     stateParents |-> [s \in 0 .. (numStates - 1) |-> NoRef],
     initialStates |-> [s \in 0 .. (numStates - 1) |-> NoRef],
     transitionToBuilders |-> <<>>,
     numTransitionDefinitionsStarted |-> 0,
     stateBuilders |-> <<>>]

\* The Specification as a reader of the builder's slices sees it: the
\* slices of a returned Spec are the builder's (lines 159-166), and the
\* entries of stateParents and initialStates point into the stateBuilders.
SpecOf(bb, heap) ==
    [stateCount |-> bb.stateCount,
     triggerCount |-> bb.triggerCount,
     transitions |-> bb.transitions,
     stateHooks |-> bb.stateHooks,
     stateParents |-> [s \in 0 .. (bb.stateCount - 1) |->
                          IF bb.stateParents[s] = NoRef THEN NoState
                          ELSE heap[bb.stateParents[s]].parent],
     initialStates |-> [s \in 0 .. (bb.stateCount - 1) |->
                           IF bb.initialStates[s] = NoRef THEN NoState
                           ELSE heap[bb.initialStates[s]].initialState]]

\* What is known of the calls of Build so far.  Of the last one: whether it
\* returned or panicked, the calls of Transition before it (started) and
\* whether one of them was never followed by a To (incomplete), the
\* stateBuilders and transitionToBuilders it had to apply (sbs, tbs), the
\* Specification as it read before the call (prior) and as it reads with
\* them applied (declared).  first: the Specification as it read when a
\* Build first returned one.
NoBuild == [outcome |-> "none", started |-> 0, incomplete |-> FALSE, prior |-> <<>>,
            declared |-> <<>>, sbs |-> <<>>, tbs |-> <<>>, first |-> <<>>]

\* The call of NewSpecBuilder that returned the builder of the run.
Made(numStates, numTriggers) ==
    [numStates |-> numStates, numTriggers |-> numTriggers, outcome |-> "returned"]

NotMade == [numStates |-> 0, numTriggers |-> 0, outcome |-> "none"]

\* A call of a method of the builder NewSpecBuilder returned.
Called ==
    /\ made.outcome = "returned"
    /\ ncalls' = ncalls + 1

\* NewSpecBuilder is called (lines 94-107): it panics on a zero count (lines
\* 95-97) and in make when a slice is too long (lines 102-105).
NewSpecBuilderCall(numStates, numTriggers) ==
    /\ made.outcome = "none"
    /\ LET zero == numStates = 0 \/ numTriggers = 0
           tooLong == \/ (numStates * numTriggers) % UintSize > MaxSliceLen
                      \/ numStates > MaxSliceLen
       IN  IF zero \/ tooLong
           THEN /\ made' = [numStates |-> numStates, numTriggers |-> numTriggers,
                            outcome |-> "panicked"]
                /\ UNCHANGED builder
           ELSE /\ made' = Made(numStates, numTriggers)
                /\ builder' = NewSpecBuilder(numStates, numTriggers)
    /\ UNCHANGED <<machineVars, sbs, tbs, built, ncalls>>

\* specBuilder.Transition (lines 110-115).
Transition ==
    /\ ncalls < MaxCalls
    /\ builder.numTransitionDefinitionsStarted < MaxHandles
    /\ builder' = [builder EXCEPT !.numTransitionDefinitionsStarted = @ + 1]
    /\ Called
    /\ UNCHANGED <<machineVars, made, sbs, tbs, built>>

\* transitionOnBuilder.To (lines 202-211) on a handle obtained, through From
\* (lines 174-179) and On (lines 187-193), from the d-th call of Transition.
To(d, from, trigger, to) ==
    /\ ncalls < MaxCalls
    /\ Len(tbs) < MaxHandles
    /\ d \in 1 .. builder.numTransitionDefinitionsStarted
    /\ tbs' = Append(tbs, [from |-> from, trigger |-> trigger, to |-> to,
                            guard |-> FALSE, action |-> FALSE, def |-> d])
    /\ builder' = [builder EXCEPT !.transitionToBuilders = Append(@, Len(tbs) + 1)]
    /\ Called
    /\ UNCHANGED <<machineVars, made, sbs, built>>

\* transitionToBuilder.WithGuard (lines 238-242).
WithGuard(tb) ==
    /\ ncalls < MaxCalls
    /\ tb \in 1 .. Len(tbs)
    /\ tbs' = [tbs EXCEPT ![tb].guard = TRUE]
    /\ Called
    /\ UNCHANGED <<machineVars, made, builder, sbs, built>>

\* transitionToBuilder.WithAction (lines 259-263).
WithAction(tb) ==
    /\ ncalls < MaxCalls
    /\ tb \in 1 .. Len(tbs)
    /\ tbs' = [tbs EXCEPT ![tb].action = TRUE]
    /\ Called
    /\ UNCHANGED <<machineVars, made, builder, sbs, built>>

\* specBuilder.State (lines 118-125).
State(s) ==
    /\ ncalls < MaxCalls
    /\ Len(sbs) < MaxHandles
    /\ sbs' = Append(sbs, [state |-> s, hooks |-> [OnEntry |-> FALSE, OnExit |-> FALSE],
                            parent |-> 0, isParentSet |-> FALSE,
                            initialState |-> 0, isInitialStateSet |-> FALSE])
    /\ builder' = [builder EXCEPT !.stateBuilders = Append(@, Len(sbs) + 1)]
    /\ Called
    /\ UNCHANGED <<machineVars, made, tbs, built>>

\* stateBuilder.OnEntry (lines 294-297).
OnEntry(sb) ==
    /\ ncalls < MaxCalls
    /\ sb \in 1 .. Len(sbs)
    /\ sbs' = [sbs EXCEPT ![sb].hooks.OnEntry = TRUE]
    /\ Called
    /\ UNCHANGED <<machineVars, made, builder, tbs, built>>

\* stateBuilder.OnExit (lines 300-303).
OnExit(sb) ==
    /\ ncalls < MaxCalls
    /\ sb \in 1 .. Len(sbs)
    /\ sbs' = [sbs EXCEPT ![sb].hooks.OnExit = TRUE]
    /\ Called
    /\ UNCHANGED <<machineVars, made, builder, tbs, built>>

\* stateBuilder.Parent (lines 306-310).
Parent(sb, s) ==
    /\ ncalls < MaxCalls
    /\ sb \in 1 .. Len(sbs)
    /\ sbs' = [sbs EXCEPT ![sb].parent = s, ![sb].isParentSet = TRUE]
    /\ Called
    /\ UNCHANGED <<machineVars, made, builder, tbs, built>>

\* stateBuilder.Initial (lines 316-320).
Initial(sb, s) ==
    /\ ncalls < MaxCalls
    /\ sb \in 1 .. Len(sbs)
    /\ sbs' = [sbs EXCEPT ![sb].initialState = s, ![sb].isInitialStateSet = TRUE]
    /\ Called
    /\ UNCHANGED <<machineVars, made, builder, tbs, built>>

\* stateBuilder.done (lines 322-331) for each handle of the sequence, in order.
RECURSIVE stateDoneAll(_, _, _)
stateDoneAll(bb, heap, handles) ==
    IF handles = <<>>
    THEN bb
    ELSE LET h == Head(handles)
             sb == heap[h]
         IN  stateDoneAll(
                 [bb EXCEPT !.stateHooks[sb.state] = sb.hooks,
                            !.stateParents[sb.state] =
                                IF sb.isParentSet THEN h ELSE @,
                            !.initialStates[sb.state] =
                                IF sb.isInitialStateSet THEN h ELSE @],
                 heap, Tail(handles))

\* The slices after the two loops of Build (lines 134-143).
Finalized(bb, toHeap, stateHeap) ==
    LET decls == [n \in 1 .. Len(bb.transitionToBuilders) |->
                     toHeap[bb.transitionToBuilders[n]]]
        done == stateDoneAll(bb, stateHeap, bb.stateBuilders)
    IN  [done EXCEPT !.transitions = doneAll(bb.transitions, decls, bb.triggerCount),
                     !.transitionToBuilders = <<>>,
                     !.stateBuilders = <<>>]

\* The definitions done() is applied to before the first whose index lies
\* outside the table (line 267 panics there): all of them when none does.
Addressable(bb, toHeap) ==
    LET decls == [n \in 1 .. Len(bb.transitionToBuilders) |->
                     toHeap[bb.transitionToBuilders[n]]]
        out == {n \in 1 .. Len(decls) :
                   transitionIndex(decls[n].from, decls[n].trigger, bb.triggerCount)
                       \notin DOMAIN bb.transitions}
    IN  IF out = {} THEN decls ELSE SubSeq(decls, 1, Min(out) - 1)

\* specBuilder.Build (lines 128-167).  It panics on the count of line 129
\* before it has changed anything, in the first loop on an index outside the
\* table (line 267), or on the initial substates (lines 146-157) after the
\* two loops; otherwise it returns the Specification.
Build ==
    /\ ncalls < MaxCalls
    /\ LET counted == builder.numTransitionDefinitionsStarted = Len(builder.transitionToBuilders)
           reached == Addressable(builder, tbs)
           inRange == Len(reached) = Len(builder.transitionToBuilders)
           final == Finalized(builder, tbs, sbs)
           spec == SpecOf(final, sbs)
           ok == /\ counted
                 /\ inRange
                 /\ BuildAccepts(final.stateCount, spec.stateParents, spec.initialStates)
       IN  /\ builder' = IF ~counted
                         THEN builder
                         ELSE IF ~inRange
                              THEN [builder EXCEPT !.transitions =
                                        doneAll(@, reached, builder.triggerCount)]
                              ELSE final
           /\ built' = [outcome |-> IF ok THEN "returned" ELSE "panicked",
                        started |-> builder.numTransitionDefinitionsStarted,
                        incomplete |-> \E d \in 1 .. builder.numTransitionDefinitionsStarted :
                                          \A k \in 1 .. Len(tbs) : tbs[k].def # d,
                        prior |-> SpecOf(builder, sbs),
                        declared |-> spec,
                        sbs |-> [n \in 1 .. Len(builder.stateBuilders) |-> sbs[builder.stateBuilders[n]]],
                        tbs |-> [n \in 1 .. Len(builder.transitionToBuilders) |->
                                    tbs[builder.transitionToBuilders[n]]],
                        first |-> IF ok /\ built.first = <<>> THEN spec ELSE built.first]
    /\ Called
    /\ UNCHANGED <<machineVars, made, sbs, tbs>>

\* A machine that is not part of the run.
MachineIdle ==
    /\ stateCount = 1
    /\ triggerCount = 1
    /\ transitions = EmptyTable(1, 1)
    /\ stateHooks = [s \in {0} |-> [OnEntry |-> FALSE, OnExit |-> FALSE]]
    /\ stateParents = [s \in {0} |-> NoState]
    /\ initialStates = [s \in {0} |-> NoState]
    /\ state = 0
    /\ pc = "idle"
    /\ frame = NoFrame
    /\ call = NoCall
    /\ ret = NilError
    /\ trace = <<>>
    /\ other = NoMachine
    /\ oracle = {}
    /\ descriptions = <<>>
    /\ active = NoActive

\* A builder that is not part of the run.
BuilderIdle ==
    /\ builder = NewSpecBuilder(1, 1)
    /\ sbs = <<>>
    /\ tbs = <<>>
    /\ built = NoBuild
    /\ ncalls = 0
    /\ made = Made(1, 1)

BuilderInit ==
    /\ MachineIdle
    /\ builder = NewSpecBuilder(MaxHandles, NumTriggers)
    /\ sbs = <<>>
    /\ tbs = <<>>
    /\ built = NoBuild
    /\ ncalls = 0
    /\ made = Made(MaxHandles, NumTriggers)

\* The calls that declare transitions, and Build.
TransitionsNext ==
    \/ Transition
    \/ \E d \in 1 .. MaxHandles, from \in {0, builder.stateCount - 1},
          trigger \in {0, builder.triggerCount - 1}, to \in {0, builder.stateCount - 1} :
          To(d, from, trigger, to)
    \/ \E tb \in 1 .. MaxHandles : WithGuard(tb)
    \/ \E tb \in 1 .. MaxHandles : WithAction(tb)
    \/ Build

\* The calls that declare states, and Build.
StatesNext ==
    \/ \E s \in {0, builder.stateCount - 1} : State(s)
    \/ \E sb \in 1 .. MaxHandles : OnEntry(sb)
    \/ \E sb \in 1 .. MaxHandles : OnExit(sb)
    \/ \E sb \in 1 .. MaxHandles, s \in {0, builder.stateCount - 1} : Parent(sb, s)
    \/ \E sb \in 1 .. MaxHandles, s \in {0, builder.stateCount - 1} : Initial(sb, s)
    \/ Build

\* The counts NewSpecBuilder is called with: zero, small, the longest slice
\* and beyond, the largest uint.
Counts == {0, 1, 2, 4, MaxSliceLen, MaxSliceLen + 1, UintSize - 1}

\* Before NewSpecBuilder is called.
SizesInit ==
    /\ MachineIdle
    /\ builder = NewSpecBuilder(1, 1)
    /\ sbs = <<>>
    /\ tbs = <<>>
    /\ built = NoBuild
    /\ ncalls = 0
    /\ made = NotMade

\* NewSpecBuilder, then the calls that declare hooks, and Build.
SizesNext ==
    \/ \E numStates \in Counts, numTriggers \in Counts :
          NewSpecBuilderCall(numStates, numTriggers)
    \/ \E s \in {0, builder.stateCount - 1} : State(s)
    \/ \E sb \in 1 .. MaxHandles : OnEntry(sb)
    \/ Build

SizesSpec == SizesInit /\ [][SizesNext]_vars

TransitionsSpec == BuilderInit /\ [][TransitionsNext]_vars

StatesSpec == BuilderInit /\ [][StatesNext]_vars

Init ==
    /\ BuilderIdle
    /\ \E sc \in Scenarios :
         \E u \in sc.bare :
            /\ stateCount = sc.n
            /\ triggerCount = NumTriggers
            /\ stateParents = sc.parents
            /\ initialStates \in {f \in [0 .. (sc.n - 1) -> sc.tos \cup {NoState}] :
                                     BuildAccepts(sc.n, sc.parents, f)}
            /\ stateHooks = [s \in 0 .. (sc.n - 1) |-> [OnEntry |-> s # u, OnExit |-> s # u]]
            /\ \E decls \in Declarations(sc, NumTriggers, u) :
                  /\ u = NoState \/ Len(decls) = 1
                  /\ transitions = doneAll(EmptyTable(sc.n, NumTriggers), decls, NumTriggers)
            /\ state \in sc.starts
    /\ pc = "idle"
    /\ frame = NoFrame
    /\ call = NoCall
    /\ ret = NilError
    /\ trace = <<>>
    /\ other = NoMachine
    /\ oracle = {}
    /\ descriptions = <<>>
    /\ active = NoActive

Next ==
    \/ \E t \in Triggers, d \in Data : FireCall(t, d)
    \/ FireFind
    \/ FireExit
    \/ FireAction
    \/ FireEntry
    \/ FireCommit
    \/ \E t \in Triggers, d \in Data : CanFireCall(t, d)
    \/ CanFireFind
    \/ \E s \in States : IsIn(s)
    \/ ActiveHierarchyCall

Spec == Init /\ [][Next]_vars

(***************************************************************************)
(* Two Machines made by New from one Specification (lines 378-383): each   *)
(* has its own state field, both point at the same Spec.  The variables    *)
(* state .. trace are those of the Machine whose method is running; other  *)
(* holds the second Machine, and Switch passes control to it at any point, *)
(* also in the middle of a Fire or a CanFire.                              *)
(***************************************************************************)
Machine(id, s) == [NoMachine EXCEPT !.id = id, !.state = s]

Switch ==
    /\ other.id # 0
    /\ other' = [id |-> 3 - other.id, state |-> state, pc |-> pc, frame |-> frame,
                 call |-> call, ret |-> ret, trace |-> trace, active |-> active]
    /\ state' = other.state
    /\ pc' = other.pc
    /\ frame' = other.frame
    /\ call' = other.call
    /\ ret' = other.ret
    /\ trace' = other.trace
    /\ active' = other.active
    /\ UNCHANGED <<stateCount, triggerCount, transitions, stateHooks, stateParents,
                   initialStates, oracle, descriptions, builderVars>>

\* The example hierarchy with ChildA -> ChildB declared on the last trigger,
\* guarded and with an action, every state with both hooks, GrandchildB the
\* initial substate of ChildB; both Machines start in GrandchildA.
TwoInit ==
    /\ BuilderIdle
    /\ stateCount = Len(ExampleParents)
    /\ triggerCount = NumTriggers
    /\ stateParents = ExampleHierarchy
    /\ initialStates = [s \in 0 .. (Len(ExampleParents) - 1) |-> IF s = 4 THEN 5 ELSE NoState]
    /\ stateHooks = [s \in 0 .. (Len(ExampleParents) - 1) |-> [OnEntry |-> TRUE, OnExit |-> TRUE]]
    /\ transitions = doneAll(EmptyTable(Len(ExampleParents), NumTriggers),
                             <<[from |-> 2, trigger |-> NumTriggers - 1, to |-> 4,
                                guard |-> TRUE, action |-> TRUE]>>, NumTriggers)
    /\ state = 3
    /\ other = Machine(2, 3)
    /\ oracle = {}
    /\ descriptions = <<>>
    /\ active = NoActive
    /\ pc = "idle"
    /\ frame = NoFrame
    /\ call = NoCall
    /\ ret = NilError
    /\ trace = <<>>

TwoNext ==
    \/ \E t \in Triggers, d \in Data : FireCall(t, d)
    \/ FireFind
    \/ FireExit
    \/ FireAction
    \/ FireEntry
    \/ FireCommit
    \/ \E t \in Triggers, d \in Data : CanFireCall(t, d)
    \/ CanFireFind
    \/ \E s \in States : IsIn(s)
    \/ ActiveHierarchyCall
    \/ Switch

TwoMachinesSpec == TwoInit /\ [][TwoNext]_vars

(***************************************************************************)
(* Deterministic hooks and actions.  A callable is a hook of a state or    *)
(* the action of the transition resolved at a state; the entry hook of an  *)
(* initial substate is the entry hook of that state.  A deterministic      *)
(* callable reports an error at every invocation, or at none: oracle is    *)
(* the set of those that do, and the error wraps nothing.                  *)
(***************************************************************************)
Callable(ev) ==
    [kind |-> IF ev.kind = "InitialOnEntry" THEN "OnEntry" ELSE ev.kind, s |-> ev.s]

\* The last call is consistent with the oracle: a callable it invoked
\* reported an error, which ended the call, exactly if it is in the oracle.
Obeys ==
    \A n \in 1 .. Len(trace) :
        trace[n].kind # "Guard" =>
            LET failed == n = Len(trace) /\ pc = "idle" /\ ret.site = trace[n].kind
            IN  /\ failed <=> Callable(trace[n]) \in oracle
                /\ failed => ret.is = {}

\* The callables that may be in the oracle.
Fallible ==
    {[kind |-> "OnExit", s |-> 3], [kind |-> "Action", s |-> 2],
     [kind |-> "OnEntry", s |-> 4], [kind |-> "OnEntry", s |-> 5],
     [kind |-> "Action", s |-> 4]}

\* The example hierarchy with ChildA -> ChildB declared on the last trigger,
\* guarded and with an action, and ChildB -> ChildA on the first, with an
\* action; every state with both hooks, GrandchildB the initial substate of
\* ChildB; both Machines start in GrandchildA; any set of fallible
\* callables reports errors.
DetInit ==
    /\ BuilderIdle
    /\ stateCount = Len(ExampleParents)
    /\ triggerCount = NumTriggers
    /\ stateParents = ExampleHierarchy
    /\ initialStates = [s \in 0 .. (Len(ExampleParents) - 1) |-> IF s = 4 THEN 5 ELSE NoState]
    /\ stateHooks = [s \in 0 .. (Len(ExampleParents) - 1) |-> [OnEntry |-> TRUE, OnExit |-> TRUE]]
    /\ transitions = doneAll(EmptyTable(Len(ExampleParents), NumTriggers),
                             <<[from |-> 2, trigger |-> NumTriggers - 1, to |-> 4,
                                guard |-> TRUE, action |-> TRUE],
                               [from |-> 4, trigger |-> 0, to |-> 2,
                                guard |-> FALSE, action |-> TRUE]>>, NumTriggers)
    /\ state = 3
    /\ other = Machine(2, 3)
    /\ oracle \in SUBSET Fallible
    /\ descriptions = <<>>
    /\ active = NoActive
    /\ pc = "idle"
    /\ frame = NoFrame
    /\ call = NoCall
    /\ ret = NilError
    /\ trace = <<>>

\* Fire on either Machine, every callable behaving as the oracle says.
DetNext ==
    \/ \E t \in Triggers, d \in Data : FireCall(t, d)
    \/ FireFind
    \/ FireExit /\ Obeys'
    \/ FireAction /\ Obeys'
    \/ FireEntry /\ Obeys'
    \/ FireCommit /\ Obeys'
    \/ Switch

DetSpec == DetInit /\ [][DetNext]_vars

(***************************************************************************)
(* The diagram.  A string is a sequence of pieces; the pieces of the       *)
(* diagram are the literals of MermaidJSDiagram, the numbers as %v prints  *)
(* them and the descriptions, each description a text without line break.  *)
(***************************************************************************)
\* fmt.Sprintf("%v", n) of an unsigned number.
Decimal == <<"0", "1", "2", "3", "4", "5", "6", "7", "8", "9", "10", "11", "12">>

Sprintf(n) == Decimal[n + 1]

\* One entry with the bracket of the guard description always written.
MermaidLine_AlwaysGuard(from, trigger) ==
    LET idx == transitionIndex(from, trigger, triggerCount)
        trans == transitions[idx]
        actionDesc == IF descriptions[idx].ActionDescription # ""
                      THEN <<" / ", descriptions[idx].ActionDescription>>
                      ELSE <<>>
    IN  IF trans.Valid
        THEN <<Sprintf(from), " --> ", Sprintf(trans.Next), " : ", Sprintf(trigger)>>
             \o <<" [", descriptions[idx].GuardDescription, "]">> \o actionDesc \o <<"\n">>
        ELSE <<>>

\* What one iteration of the inner loop appends (lines 349-363).
MermaidLine(from, trigger) ==
    LET idx == transitionIndex(from, trigger, triggerCount)
        trans == transitions[idx]
        guardDesc == IF descriptions[idx].GuardDescription # ""
                     THEN <<" [", descriptions[idx].GuardDescription, "]">>
                     ELSE <<>>
        actionDesc == IF descriptions[idx].ActionDescription # ""
                      THEN <<" / ", descriptions[idx].ActionDescription>>
                      ELSE <<>>
    IN  IF trans.Valid
        THEN <<Sprintf(from), " --> ", Sprintf(trans.Next), " : ", Sprintf(trigger)>>
             \o guardDesc \o actionDesc \o <<"\n">>
        ELSE <<>>

\* The two loops (lines 347-348) from (from, trigger) on.
RECURSIVE MermaidLoop(_, _, _)
MermaidLoop(from, trigger, diagram) ==
    IF from >= stateCount
    THEN diagram
    ELSE IF trigger >= triggerCount
         THEN MermaidLoop(from + 1, 0, diagram)
         ELSE MermaidLoop(from, trigger + 1, diagram \o MermaidLine(from, trigger))

\* Spec.MermaidJSDiagram (lines 344-368).
MermaidJSDiagram == MermaidLoop(0, 0, <<"stateDiagram-v2", "\n">>)

Diagram(text) == [site |-> "diagram", is |-> {}, text |-> text]

MermaidJSDiagramCall ==
    /\ pc = "idle"
    /\ call' = [NoCall EXCEPT !.op = "MermaidJSDiagram", !.before = state]
    /\ ret' = Diagram(MermaidJSDiagram)
    /\ trace' = <<>>
    /\ UNCHANGED <<specVars, state, pc, frame, active>>

\* The entries a diagram scenario may declare, for (from, trigger) among the
\* first and last state and trigger: the zero entry, or a transition to the
\* first or last state, without guard, with a guard without description or
\* with a described guard, and without or with a described action.
DiagramEntries(n) ==
    {[t |-> NoTransition, d |-> [GuardDescription |-> "", ActionDescription |-> ""]]}
    \cup {[t |-> [Valid |-> TRUE, Next |-> to, Guard |-> g[1], Action |-> a[1]],
            d |-> [GuardDescription |-> g[2], ActionDescription |-> a[2]]] :
              to \in {0, n - 1},
              g \in {<<FALSE, "">>, <<TRUE, "">>, <<TRUE, "balance >= amount">>},
              a \in {<<FALSE, "">>, <<TRUE, "deduct balance">>}}

DiagramInit ==
    /\ BuilderIdle
    /\ stateCount = NumStates
    /\ triggerCount = NumTriggers
    /\ stateParents = [s \in 0 .. (NumStates - 1) |-> NoState]
    /\ initialStates = [s \in 0 .. (NumStates - 1) |-> NoState]
    /\ stateHooks = [s \in 0 .. (NumStates - 1) |-> [OnEntry |-> FALSE, OnExit |-> FALSE]]
    /\ \E e \in [{0, NumStates - 1} \X {0, NumTriggers - 1} -> DiagramEntries(NumStates)] :
          LET declared(idx) ==
                  {p \in DOMAIN e : transitionIndex(p[1], p[2], NumTriggers) = idx}
              entry(idx) ==
                  IF declared(idx) = {}
                  THEN [t |-> NoTransition,
                        d |-> [GuardDescription |-> "", ActionDescription |-> ""]]
                  ELSE e[CHOOSE p \in declared(idx) : TRUE]
          IN  /\ transitions = [idx \in DOMAIN EmptyTable(NumStates, NumTriggers) |->
                                   entry(idx).t]
              /\ descriptions = [idx \in DOMAIN EmptyTable(NumStates, NumTriggers) |->
                                    entry(idx).d]
    /\ state = 0
    /\ other = NoMachine
    /\ oracle = {}
    /\ active = NoActive
    /\ pc = "idle"
    /\ frame = NoFrame
    /\ call = NoCall
    /\ ret = NilError
    /\ trace = <<>>

DiagramNext ==
    \/ MermaidJSDiagramCall
    \/ \E s \in States : IsIn(s)

DiagramSpec == DiagramInit /\ [][DiagramNext]_vars

(***************************************************************************)
(* The traffic light of examples/simple_api_for_defining_states_triggers_  *)
(* and_transitions: red(0), yellow(1), green(2), the one trigger next(0),  *)
(* red -> yellow and yellow -> green, each with a guard and an action, and *)
(* both hooks on every state.  The example's callables return nil.  New is *)
(* called whenever a Machine is needed: here twice, both started in red.   *)
(***************************************************************************)
red == 0
yellow == 1
green == 2
next == 0

TrafficInit ==
    /\ BuilderIdle
    /\ stateCount = 3
    /\ triggerCount = 1
    /\ stateParents = [s \in 0 .. 2 |-> NoState]
    /\ initialStates = [s \in 0 .. 2 |-> NoState]
    /\ stateHooks = [s \in 0 .. 2 |-> [OnEntry |-> TRUE, OnExit |-> TRUE]]
    /\ transitions = doneAll(EmptyTable(3, 1),
                             <<[from |-> red, trigger |-> next, to |-> yellow,
                                guard |-> TRUE, action |-> TRUE],
                               [from |-> yellow, trigger |-> next, to |-> green,
                                guard |-> TRUE, action |-> TRUE]>>, 1)
    /\ state = red
    /\ other = Machine(2, red)
    /\ oracle = {}
    /\ descriptions = <<>>
    /\ active = NoActive
    /\ pc = "idle"
    /\ frame = NoFrame
    /\ call = NoCall
    /\ ret = NilError
    /\ trace = <<>>

\* Fire(next), CanFire(next) and the queries on either Machine; no callable
\* reports an error.
TrafficNext ==
    \/ FireCall(next, "good")
    \/ FireFind
    \/ FireExit /\ Obeys'
    \/ FireAction /\ Obeys'
    \/ FireEntry /\ Obeys'
    \/ FireCommit /\ Obeys'
    \/ CanFireCall(next, "good")
    \/ CanFireFind
    \/ \E s \in States : IsIn(s)
    \/ ActiveHierarchyCall
    \/ Switch

TrafficSpec == TrafficInit /\ [][TrafficNext]_vars

(***************************************************************************)
(* Reference definitions for the properties: the hierarchy read directly   *)
(* from the parent links, independently of the machine's own walk.         *)
(***************************************************************************)
ProperAncestors(s) == {Anc(s, k) : k \in 1 .. stateCount} \ {NoState}

\* The number of states on the upward chain from s, counted up to limit.
ChainLen(s, limit) == Cardinality({k \in 0 .. (limit - 1) : Anc(s, k) # NoState})

\* Every upward chain ends at a root.
Acyclic == \A s \in States : Anc(s, stateCount) = NoState

\* Every upward chain ends at a root within maxDepth states.
Shallow == \A s \in States : Anc(s, maxDepth) = NoState

\* The ancestor chain of s, leaf first, bounded at the depth limit.
BoundedChain(s) == [k \in 1 .. ChainLen(s, maxDepth) |-> Anc(s, k - 1)]

Entry(s, t) == transitions[s * triggerCount + t]

\* The nearest state of the ancestor chain of s with a valid entry for t.
ResolvedAt(s, t) ==
    LET ks == {k \in 0 .. stateCount : Anc(s, k) # NoState /\ Entry(Anc(s, k), t).Valid}
    IN  IF ks = {} THEN NoState ELSE Anc(s, Min(ks))

Resolved(s, t) == Entry(ResolvedAt(s, t), t)

FireDone == pc = "idle" /\ call.op = "Fire"
FireOK == FireDone /\ ret = NilError
FireFailed == FireDone /\ ret # NilError

Kinds(k) == {n \in 1 .. Len(trace) : trace[n].kind = k}

Rev(seq) == [k \in 1 .. Len(seq) |-> seq[Len(seq) + 1 - k]]

\* The calls of the trace without the State() each of them saw.
Calls == [n \in 1 .. Len(trace) |-> [kind |-> trace[n].kind, s |-> trace[n].s]]

(***************************************************************************)
(* C1.  Whenever Fire returns an error, whichever step reported it,        *)
(* State() equals State() before the call.                                 *)
(***************************************************************************)
C1_ErrorKeepsState == FireFailed => state = call.before

\* An entry hook failed after exit hooks had run, on the way to another state.
C1_Witness ==
    /\ FireFailed
    /\ ret.site = "OnEntry"
    /\ Kinds("OnExit") # {}
    /\ Resolved(call.before, call.trigger).Next # call.before

(***************************************************************************)
(* C2.  When the guard of the resolved transition reports an error, Fire   *)
(* returns an error matching ErrTransitionRejected, invokes no exit hook,  *)
(* action or entry hook, and leaves State() as it was.                     *)
(***************************************************************************)
GuardRejects(s, t, d) ==
    /\ ResolvedAt(s, t) # NoState
    /\ Resolved(s, t).Guard
    /\ GuardFails(d)

C2_NoOpOnRejection ==
    (FireDone /\ GuardRejects(call.before, call.trigger, call.data)) =>
        /\ ErrTransitionRejected \in ret.is
        /\ \A n \in 1 .. Len(trace) : trace[n].kind = "Guard"
        /\ state = call.before

\* A rejection by the guard of a transition found on a proper ancestor, in a
\* state whose exit hook would have run.
C2_Witness ==
    /\ FireDone
    /\ GuardRejects(call.before, call.trigger, call.data)
    /\ ResolvedAt(call.before, call.trigger) # call.before
    /\ stateHooks[call.before].OnExit

(***************************************************************************)
(* C3.  A successful Fire invokes, in this order and nothing else: the     *)
(* resolved transition's guard once, the exit hooks from the original      *)
(* current state upward to just below the LCA, the action, the entry hooks *)
(* from just below the LCA downward to the target, the entry hook of the   *)
(* target's initial substate; State() changes only after all of them.      *)
(* Chains and LCA are those of the specification's steps 3 and 4.          *)
(***************************************************************************)
ExpectedCalls(S, t) ==
    LET at == ResolvedAt(S, t)
        tr == Resolved(S, t)
        src == BoundedChain(S)
        tgt == BoundedChain(tr.Next)
        hits == {i \in 2 .. Len(src) : \E j \in 1 .. Len(tgt) : tgt[j] = src[i]}
        L == IF hits = {} THEN NoState ELSE src[Min(hits)]
        e == IF L = NoState
             THEN Len(src)
             ELSE Min({i \in 1 .. Len(src) : src[i] = L}) - 1
        from == IF L = NoState
                THEN Len(tgt)
                ELSE Min({j \in 1 .. Len(tgt) : tgt[j] = L})
        C == initialStates[tr.Next]
        exits == SelectSeq(SubSeq(src, 1, e), LAMBDA x : stateHooks[x].OnExit)
        entries == SelectSeq(Rev(SubSeq(tgt, 1, from)),
                             LAMBDA x : x # L /\ stateHooks[x].OnEntry)
    IN  (IF tr.Guard THEN <<[kind |-> "Guard", s |-> at]>> ELSE <<>>)
        \o [n \in 1 .. Len(exits) |-> [kind |-> "OnExit", s |-> exits[n]]]
        \o (IF tr.Action THEN <<[kind |-> "Action", s |-> at]>> ELSE <<>>)
        \o [n \in 1 .. Len(entries) |-> [kind |-> "OnEntry", s |-> entries[n]]]
        \o (IF C # NoState /\ stateHooks[C].OnEntry
            THEN <<[kind |-> "InitialOnEntry", s |-> C]>>
            ELSE <<>>)

C3_FireOrder ==
    FireOK =>
        /\ Calls = ExpectedCalls(call.before, call.trigger)
        /\ \A n \in 1 .. Len(trace) : trace[n].cur = call.before

\* Every kind of step ran, with two exit hooks and a change of state.
C3_Witness ==
    /\ FireOK
    /\ Kinds("Guard") # {}
    /\ Cardinality(Kinds("OnExit")) >= 2
    /\ Kinds("Action") # {}
    /\ Kinds("OnEntry") # {}
    /\ Kinds("InitialOnEntry") # {}
    /\ state # call.before

(***************************************************************************)
(* C4.  LCA exclusivity.  In a hierarchy of depth at most 10, a successful *)
(* Fire from S to a target T in another branch, L their nearest common     *)
(* proper ancestor, invokes onExit for exactly S and the ancestors of S    *)
(* strictly below L and onEntry for exactly T and the ancestors of T       *)
(* strictly below L, and no hook of L or of an ancestor of L.              *)
(* (A hook is invoked where one is set.)                                   *)
(***************************************************************************)
Target == Resolved(call.before, call.trigger).Next

DifferentBranches(S, T) == S \notin AncestorsOrSelf(T) /\ T \notin AncestorsOrSelf(S)

NearestCommon(S, T) ==
    LET ks == {k \in 1 .. stateCount : Anc(S, k) # NoState /\ Anc(S, k) \in AncestorsOrSelf(T)}
    IN  IF ks = {} THEN NoState ELSE Anc(S, Min(ks))

Below(x, L) == AncestorsOrSelf(x) \ AncestorsOrSelf(L)

InitialOf(T) == IF initialStates[T] = NoState THEN {} ELSE {initialStates[T]}

Exited == {trace[n].s : n \in Kinds("OnExit")}
Entered == {trace[n].s : n \in Kinds("OnEntry") \cup Kinds("InitialOnEntry")}

C4_Case ==
    /\ FireOK
    /\ Shallow
    /\ DifferentBranches(call.before, Target)
    /\ NearestCommon(call.before, Target) # NoState

\* The claim as stated: violated when T declares an initial substate.
C4_Original ==
    C4_Case =>
        LET L == NearestCommon(call.before, Target)
        IN  /\ Exited = {x \in Below(call.before, L) : stateHooks[x].OnExit}
            /\ Entered = {x \in Below(Target, L) : stateHooks[x].OnEntry}

\* C4 as amended: the onEntry of T's initial substate is invoked as well;
\* every one of these hooks is invoked once.
C4_LCAExclusivity ==
    C4_Case =>
        LET L == NearestCommon(call.before, Target)
        IN  /\ Exited = {x \in Below(call.before, L) : stateHooks[x].OnExit}
            /\ Entered = {x \in Below(Target, L) \cup InitialOf(Target) :
                             stateHooks[x].OnEntry}
            /\ Cardinality(Kinds("OnExit")) = Cardinality(Exited)
            /\ Cardinality(Kinds("OnEntry") \cup Kinds("InitialOnEntry"))
                   = Cardinality(Entered)

\* Two states exited below L, the target entered and then its initial substate.
C4_Witness ==
    /\ C4_Case
    /\ Cardinality(Kinds("OnExit")) >= 2
    /\ Kinds("OnEntry") # {}
    /\ Kinds("InitialOnEntry") # {}
    /\ stateHooks[NearestCommon(call.before, Target)].OnExit

(***************************************************************************)
(* C5.  Bubbling.  Fire applies the transition of the nearest state of the *)
(* ancestor chain of the current state that has a valid entry for the      *)
(* trigger, and returns an error matching ErrNotFound if and only if no    *)
(* state of that chain has one.                                            *)
(* Violated: the error of a guard, a hook or the action of the resolved    *)
(* transition is wrapped with %w and may itself match ErrNotFound.         *)
(***************************************************************************)
FinalState(T) == IF initialStates[T] = NoState THEN T ELSE initialStates[T]

AppliesNearest ==
    /\ \A n \in Kinds("Guard") \cup Kinds("Action") :
          trace[n].s = ResolvedAt(call.before, call.trigger)
    /\ FireOK => state = FinalState(Target)

C5_Bubbling ==
    FireDone =>
        /\ AppliesNearest
        /\ ErrNotFound \in ret.is <=> ResolvedAt(call.before, call.trigger) = NoState

(***************************************************************************)
(* C6.  After a successful Fire, State() is the resolved transition's      *)
(* target T when T declares no initial substate, and T's initial substate  *)
(* when it does.                                                           *)
(***************************************************************************)
C6_FinalState == FireOK => state = FinalState(Target)

C6_Witness ==
    /\ FireOK
    /\ initialStates[Target] # NoState
    /\ state = initialStates[Target]
    /\ state # Target

(***************************************************************************)
(* C7.  When bubbling matches the transition on a proper ancestor A of the *)
(* current state S, the source chain of the LCA computation and of the     *)
(* exit phase is the ancestor chain of S: the exit phase starts at S and   *)
(* S's own exit step runs.                                                 *)
(* Violated in a cyclic hierarchy, which Build returns: S recurs in its    *)
(* own chain and is taken for the LCA, so that no state is exited.         *)
(***************************************************************************)
Bubbled == ResolvedAt(call.before, call.trigger) \notin {NoState, call.before}

\* The states whose onExit was invoked, in order.
ExitCalls ==
    LET ev == SelectSeq(trace, LAMBDA x : x.kind = "OnExit")
    IN  [n \in 1 .. Len(ev) |-> ev[n].s]

\* At the end of the exit loop frame.i counts the states that were left.
ExitsFromSource ==
    /\ frame.sourceStates = BoundedChain(call.before)
    /\ ExitCalls = SelectSeq(SubSeq(frame.sourceStates, 1, frame.i),
                             LAMBDA x : stateHooks[x].OnExit)

C7_ExitStartsAtLeaf ==
    (pc = "fire_action" /\ Bubbled) => (ExitsFromSource /\ frame.i >= 1)

(***************************************************************************)
(* C8.  CanFire never changes State() or ActiveHierarchy(), invokes        *)
(* nothing but the resolved guard, and a CanFire repeated with the same    *)
(* trigger and data in the same state returns the same result.             *)
(***************************************************************************)
C8_CanFireIsPure ==
    /\ [][(pc = "can_find" \/ pc' = "can_find") =>
             (state' = state /\ ActiveHierarchy' = ActiveHierarchy)]_vars
    /\ [](call.op = "CanFire" =>
             /\ \A n \in 1 .. Len(trace) : trace[n].kind = "Guard"
             /\ Len(trace) <= 1
             /\ state = call.before
             /\ (pc = "idle" /\ call.can # "none") => ret.site = call.can)

\* The same CanFire twice, rejected both times by the guard it evaluated.
C8_Witness ==
    /\ pc = "idle"
    /\ call.op = "CanFire"
    /\ call.can = "false"
    /\ ret.site = "false"
    /\ Kinds("Guard") # {}

(***************************************************************************)
(* C9.  CanFire agrees with Fire: CanFire(trigger, data) returns false     *)
(* exactly when Fire(trigger, data) called in the same state returns an    *)
(* error matching ErrNotFound or ErrTransitionRejected, and true exactly   *)
(* when Fire gets past the guard.                                          *)
(* Violated: Fire wraps with %w what a hook or the action reports, so an   *)
(* error from past the guard may match a sentinel.                         *)
(***************************************************************************)
PastGuard == ret.site \notin {"find", "guard"}

C9_CanFireAgrees ==
    (FireDone /\ call.can # "none") =>
        /\ call.can = "false" <=> ret.is \cap Sentinels # {}
        /\ call.can = "true" <=> PastGuard

(***************************************************************************)
(* C10.  IsIn(s) returns true if and only if s equals State() or s is an   *)
(* ancestor, at any distance, of State() in the parent relation.           *)
(* Violated: readHierarchy stops after maxDepth states, and Build returns  *)
(* specifications with longer parent chains.                               *)
(***************************************************************************)
IsInDone == pc = "idle" /\ call.op = "IsIn"

C10_IsIn == IsInDone => (ret = Bool(call.arg \in AncestorsOrSelf(state)))

(***************************************************************************)
(* C11.  ActiveHierarchy() returns State(), its parent, its grandparent    *)
(* and so on, leaf first and ending with the root (the state that has no   *)
(* parent), whatever the state the machine has come to, and calling it     *)
(* does not change State().                                                *)
(* Violated: readHierarchy stops after maxDepth states, and Build returns  *)
(* specifications with longer (or cyclic) parent chains.                   *)
(***************************************************************************)
ActiveHierarchyDone == pc = "idle" /\ call.op = "ActiveHierarchy"

C11_ActiveHierarchy ==
    ActiveHierarchyDone =>
        /\ Len(ret.states) >= 1
        /\ ret.states[1] = state
        /\ \A k \in 2 .. Len(ret.states) : ret.states[k] = stateParents[ret.states[k - 1]]
        /\ stateParents[ret.states[Len(ret.states)]] = NoState
        /\ state = call.before

(***************************************************************************)
(* C17.  The errors of Fire are distinguishable by kind: a not-found       *)
(* result matches ErrNotFound and not ErrTransitionRejected, a guard       *)
(* rejection matches ErrTransitionRejected and not ErrNotFound, and the    *)
(* failure of an exit hook, the action or an entry hook matches neither,   *)
(* whatever error the guard, the hook or the action reports.               *)
(* Violated: Fire wraps the reported error with %w, sentinels included.    *)
(***************************************************************************)
C17_ErrorKinds ==
    FireDone =>
        /\ ret.site = "find" => ret.is = {ErrNotFound}
        /\ ret.site = "guard" => ret.is = {ErrTransitionRejected}
        /\ ret.site \in {"OnExit", "Action", "OnEntry", "InitialOnEntry"} => ret.is = {}

(***************************************************************************)
(* C18.  The bubbling search of Fire and of CanFire examines at most       *)
(* maxDepth states: the state it looks at is always one of the first ten   *)
(* of the ancestor chain of the current state.                             *)
(* Violated: the loop follows the parent links without counting, and       *)
(* Build returns specifications with longer (or cyclic) parent chains.     *)
(***************************************************************************)
C18_BubblingBounded ==
    pc \in {"fire_find", "can_find"} =>
        \E k \in 0 .. (maxDepth - 1) : Anc(call.before, k) = frame.st

(***************************************************************************)
(* Reference definitions for the builder: what the declarations made       *)
(* before a call of Build amount to, read from the handles themselves.     *)
(***************************************************************************)
BuildDone == built.outcome # "none"
BuildReturned == built.outcome = "returned"
BuildPanicked == built.outcome = "panicked"

BStates == 0 .. (builder.stateCount - 1)
BTriggers == 0 .. (builder.triggerCount - 1)

\* The stateBuilders of the last Build, by position, that are for state s.
For(s) == {n \in 1 .. Len(built.sbs) : built.sbs[n].state = s}

\* The parent state s ends up with: that of the last State(s) handle that
\* sets one, else what the Specification had.
DeclaredParent(s) ==
    LET ks == {n \in For(s) : built.sbs[n].isParentSet}
    IN  IF ks = {} THEN built.prior.stateParents[s] ELSE built.sbs[Max(ks)].parent

DeclaredInitial(s) ==
    LET ks == {n \in For(s) : built.sbs[n].isInitialStateSet}
    IN  IF ks = {} THEN built.prior.initialStates[s] ELSE built.sbs[Max(ks)].initialState

DeclaredOnEntry(s) ==
    built.prior.stateHooks[s].OnEntry \/ \E n \in For(s) : built.sbs[n].hooks.OnEntry

DeclaredOnExit(s) ==
    built.prior.stateHooks[s].OnExit \/ \E n \in For(s) : built.sbs[n].hooks.OnExit

\* The transitionToBuilders of the last Build, by position, for (from, trigger).
Defining(from, trigger) ==
    {n \in 1 .. Len(built.tbs) :
        built.tbs[n].from = from /\ built.tbs[n].trigger = trigger}

\* The k-th ancestor of s under the given parent links.
RECURSIVE AncIn(_, _, _)
AncIn(parents, s, k) ==
    IF k = 0
    THEN s
    ELSE LET a == AncIn(parents, s, k - 1)
         IN  IF a = NoState THEN NoState ELSE parents[a]

(***************************************************************************)
(* C12.  Build panics whenever a transition definition begun with          *)
(* Transition() was never completed with To, whatever else was declared    *)
(* and however often To was called on the other handles.                   *)
(* Violated: Build compares the number of calls of Transition with the     *)
(* number of calls of To, and a handle on which To is called twice makes   *)
(* up for a definition that was never completed.                           *)
(***************************************************************************)
C12_IncompletePanics == (BuildDone /\ built.incomplete) => BuildPanicked

(***************************************************************************)
(* C13.  Build panics if, with all State declarations applied, some state  *)
(* P has initial substate C and C has no parent or a parent other than P;  *)
(* so in every Specification it returns initial(P) = C implies             *)
(* parent(C) = P, in whatever order Initial and Parent were declared.      *)
(***************************************************************************)
InitialMismatch ==
    \E P \in BStates :
        /\ DeclaredInitial(P) # NoState
        /\ DeclaredParent(DeclaredInitial(P)) # P

C13_InitialNeedsParent ==
    /\ (BuildDone /\ InitialMismatch) => BuildPanicked
    /\ BuildReturned =>
           \A P \in BStates :
               built.declared.initialStates[P] # NoState =>
                   built.declared.stateParents[built.declared.initialStates[P]] = P

\* Build panicked for an initial substate without a parent, declared after
\* nothing else: State(P).Initial(C) alone.
C13_Witness ==
    /\ BuildPanicked
    /\ \E P \in BStates :
          /\ DeclaredInitial(P) # NoState
          /\ DeclaredParent(DeclaredInitial(P)) = NoState

(***************************************************************************)
(* C14.  Several State(s) calls for one state accumulate: an OnEntry,      *)
(* OnExit, Parent or Initial set through one of them is in effect in the   *)
(* built Specification unless a later one sets the same attribute again.   *)
(* Violated: done() assigns the whole hooks record of each stateBuilder,   *)
(* so a later State(s) handle erases the hooks of an earlier one.          *)
(***************************************************************************)
C14_StateCallsAccumulate ==
    BuildReturned =>
        \A s \in BStates :
            /\ built.declared.stateHooks[s].OnEntry = DeclaredOnEntry(s)
            /\ built.declared.stateHooks[s].OnExit = DeclaredOnExit(s)
            /\ built.declared.stateParents[s] = DeclaredParent(s)
            /\ built.declared.initialStates[s] = DeclaredInitial(s)

(***************************************************************************)
(* C15.  Once Build has returned a Specification, no later call on the     *)
(* builder or on a handle changes what that Specification holds.           *)
(* Violated: the Specification shares its slices with the builder and its  *)
(* parent and initial-substate entries point into the stateBuilders.       *)
(***************************************************************************)
C15_BuiltIsFrozen == built.first # <<>> => SpecOf(builder, sbs) = built.first

(***************************************************************************)
(* C19.  In every Specification Build returns the parent relation is       *)
(* acyclic and every upward chain reaches a root within maxDepth levels.   *)
(* Violated: Build checks the initial substates only.                      *)
(***************************************************************************)
C19_HierarchyWellFormed ==
    BuildReturned =>
        \A s \in BStates : AncIn(built.declared.stateParents, s, maxDepth) = NoState

(***************************************************************************)
(* C20.  Re-declaring a (from, trigger) pair is last-write-wins: when      *)
(* several completed definitions share From and On, Build succeeds and the *)
(* entry has the target, guard and action of the one whose To was called   *)
(* last, and nothing of the earlier ones.                                  *)
(***************************************************************************)
\* Every definition begun before the last Build was completed by one To.
EachCompletedOnce ==
    \A d \in 1 .. built.started :
        Cardinality({n \in 1 .. Len(built.tbs) : built.tbs[n].def = d}) = 1

C20_LastWriteWins ==
    /\ (BuildDone /\ EachCompletedOnce) => BuildReturned
    /\ BuildReturned =>
           \A from \in BStates, trigger \in BTriggers :
               Defining(from, trigger) # {} =>
                   LET last == built.tbs[Max(Defining(from, trigger))]
                   IN  built.declared.transitions[from * builder.triggerCount + trigger]
                           = [Valid |-> TRUE, Next |-> last.to,
                              Guard |-> last.guard, Action |-> last.action]

\* Two definitions of one pair: the first guarded, the second to another
\* target and without a guard.
C20_Witness ==
    /\ BuildReturned
    /\ EachCompletedOnce
    /\ \E from \in BStates, trigger \in BTriggers :
          \E m \in Defining(from, trigger), n \in Defining(from, trigger) :
              /\ m < n
              /\ built.tbs[m].guard
              /\ ~built.tbs[n].guard
              /\ built.tbs[m].to # built.tbs[n].to

(***************************************************************************)
(* C21.  NewSpecBuilder panics if and only if numStates or numTriggers is  *)
(* zero; otherwise the Specification built later has the declared counts,  *)
(* a transition table of stateCount*triggerCount entries and hooks, parent *)
(* and initial-substate tables of stateCount entries.                      *)
(* Violated: the product of the counts is computed in uint and wraps, so   *)
(* the table is shorter than stateCount*triggerCount; and make panics on a *)
(* count that is not zero but too large.                                   *)
(***************************************************************************)
C21_Sizes ==
    /\ made.outcome # "none" =>
           (made.outcome = "panicked" <=> (made.numStates = 0 \/ made.numTriggers = 0))
    /\ BuildReturned =>
           /\ built.declared.stateCount = made.numStates
           /\ built.declared.triggerCount = made.numTriggers
           /\ DOMAIN built.declared.transitions = 0 .. (made.numStates * made.numTriggers - 1)
           /\ DOMAIN built.declared.stateHooks = 0 .. (made.numStates - 1)
           /\ DOMAIN built.declared.stateParents = 0 .. (made.numStates - 1)
           /\ DOMAIN built.declared.initialStates = 0 .. (made.numStates - 1)

(***************************************************************************)
(* Two Machines of one Specification.                                      *)
(***************************************************************************)
\* State() of Machine i and the last call made on it.
StateOf(i) == IF other.id = i THEN other.state ELSE state

CallOf(i) == IF other.id = i THEN other.call ELSE call

\* C16: Machines sharing one Specification never interfere.  No step changes
\* the shared tables; a step of one Machine's method leaves the other
\* Machine as it was; and whenever State() of a Machine changes, the step is
\* the commit of a Fire called on that Machine, and the new state is the one
\* its own state before the call, its own trigger and the Specification
\* determine (the resolved transition's target, or that target's initial
\* substate): what the Machine would do alone.
C16_MachinesIndependent ==
    [][/\ UNCHANGED <<stateCount, triggerCount, transitions, stateHooks, stateParents,
                      initialStates>>
       /\ other'.id = other.id => other' = other
       /\ \A i \in {1, 2} :
             StateOf(i)' # StateOf(i) =>
                /\ other.id # i
                /\ other'.id = other.id
                /\ CallOf(i).op = "Fire"
                /\ CallOf(i).before = StateOf(i)
                /\ StateOf(i)' = FinalState(Resolved(StateOf(i), CallOf(i).trigger).Next)]_vars

\* One Machine has committed a transition while the other is in the middle
\* of its own Fire, past its exit hooks and not yet committed.
C16_Witness ==
    /\ other.id # 0
    /\ FireOK
    /\ state # call.before
    /\ other.pc = "fire_entry"
    /\ other.state = other.call.before

(***************************************************************************)
(* C22.  Determinism.  With deterministic guards, hooks and actions, two   *)
(* Machines of one Specification that are given the same Fire call in the  *)
(* same state invoke the same callables in the same order, get the same    *)
(* error or none, and end in the same state.  State() after a call is      *)
(* State() before the next, so Machines started in the same state and      *)
(* given the same sequence of Fire calls pass through the same states,     *)
(* invocations and errors, however their calls are interleaved.            *)
(***************************************************************************)
SameCall ==
    /\ other.id # 0
    /\ pc = "idle"
    /\ other.pc = "idle"
    /\ call.op = "Fire"
    /\ other.call.op = "Fire"
    /\ call.before = other.call.before
    /\ call.trigger = other.call.trigger
    /\ call.data = other.call.data

C23_TrafficLight ==
    /\ state \in {red, yellow, green}
    /\ call.op = "New" => state = red
    /\ pc # "idle" => state = call.before
    /\ FireDone =>
           /\ call.before = red => (ret = NilError /\ state = yellow)
           /\ call.before = yellow => (ret = NilError /\ state = green)
           /\ call.before = green => (ErrNotFound \in ret.is /\ state = green)

\* The third Fire has returned.
C23_Witness ==
    /\ FireDone
    /\ call.before = green
    /\ ErrNotFound \in ret.is
    /\ state = green

(***************************************************************************)
(* C24.  MermaidJSDiagram emits, after the header line, one line for every *)
(* valid entry of the transition table and none for an invalid one, in     *)
(* increasing (from, trigger) order, each of the form                      *)
(* <from> --> <to> : <trigger>, followed by " [<guard description>]" only  *)
(* when that description is not empty and by " / <action description>"    *)
(* only when that one is not empty; the Specification is left as it was.   *)
(***************************************************************************)
\* The lines of a text: the pieces before each line break.
RECURSIVE Lines(_, _)
Lines(text, line) ==
    IF text = <<>>
    THEN IF line = <<>> THEN <<>> ELSE <<line>>
    ELSE IF Head(text) = "\n"
         THEN <<line>> \o Lines(Tail(text), <<>>)
         ELSE Lines(Tail(text), Append(line, Head(text)))

\* The valid entries below index k, counted.
ValidBelow(k) == Cardinality({idx \in DOMAIN transitions : idx < k /\ transitions[idx].Valid})

\* The line the claim gives the valid entry for (from, trigger).
LineOf(from, trigger) ==
    LET idx == from * triggerCount + trigger
        gd == descriptions[idx].GuardDescription
        ad == descriptions[idx].ActionDescription
    IN  <<Decimal[from + 1], " --> ", Decimal[transitions[idx].Next + 1], " : ",
          Decimal[trigger + 1]>>
        \o (IF gd = "" THEN <<>> ELSE <<" [", gd, "]">>)
        \o (IF ad = "" THEN <<>> ELSE <<" / ", ad>>)

MermaidDone == pc = "idle" /\ call.op = "MermaidJSDiagram"

C24_Diagram ==
    /\ [](MermaidDone =>
             LET lines == Lines(ret.text, <<>>)
             IN  /\ Len(lines) = 1 + ValidBelow(stateCount * triggerCount)
                 /\ lines[1] = <<"stateDiagram-v2">>
                 /\ \A from \in States, trigger \in Triggers :
                       LET idx == from * triggerCount + trigger
                       IN  transitions[idx].Valid =>
                               lines[2 + ValidBelow(idx)] = LineOf(from, trigger))
    /\ [][call'.op = "MermaidJSDiagram" =>
             UNCHANGED <<stateCount, triggerCount, transitions, stateHooks, stateParents,
                         initialStates, descriptions, state>>]_vars

\* A diagram of three lines or more after the header: one with both
\* descriptions, one with a guard that has no description, one bare.
C24_Witness ==
    /\ MermaidDone
    /\ ValidBelow(stateCount * triggerCount) >= 3
    /\ \E idx \in DOMAIN transitions :
          /\ transitions[idx].Valid
          /\ descriptions[idx].GuardDescription # ""
          /\ descriptions[idx].ActionDescription # ""
    /\ \E idx \in DOMAIN transitions :
          /\ transitions[idx].Valid
          /\ transitions[idx].Guard
          /\ descriptions[idx].GuardDescription = ""
    /\ \E idx \in DOMAIN transitions : ~transitions[idx].Valid

(***************************************************************************)
(* The active set.  Acyclic hierarchies of depth at most maxDepth, with    *)
(* the states that New's state is in tracked through every exit and entry  *)
(* step of Fire.                                                           *)
(***************************************************************************)
\* The deepest hierarchy within the bound: one chain of maxDepth states.
FullChain ==
    [n |-> maxDepth,
     parents |-> [s \in 0 .. (maxDepth - 1) |-> IF s < maxDepth - 1 THEN s + 1 ELSE NoState],
     froms |-> {0, 1, maxDepth - 1}, tos |-> {0, 1, maxDepth - 1}, bare |-> {NoState},
     second |-> {FALSE}, starts |-> 0 .. (maxDepth - 1)]

ActiveInit ==
    /\ BuilderIdle
    /\ \E sc \in Scenarios \cup {FullChain} :
         \E u \in sc.bare :
            /\ stateCount = sc.n
            /\ triggerCount = NumTriggers
            /\ stateParents = sc.parents
            /\ Acyclic
            /\ Shallow
            /\ initialStates \in {f \in [0 .. (sc.n - 1) -> sc.tos \cup {NoState}] :
                                     BuildAccepts(sc.n, sc.parents, f)}
            /\ stateHooks = [s \in 0 .. (sc.n - 1) |-> [OnEntry |-> s # u, OnExit |-> s # u]]
            /\ \E decls \in Declarations(sc, NumTriggers, u) :
                  /\ u = NoState \/ Len(decls) = 1
                  /\ transitions = doneAll(EmptyTable(sc.n, NumTriggers), decls, NumTriggers)
            /\ state \in sc.starts
    /\ pc = "idle"
    /\ frame = NoFrame
    /\ call = NoCall
    /\ ret = NilError
    /\ trace = <<>>
    /\ other = NoMachine
    /\ oracle = {}
    /\ descriptions = <<>>
    /\ active = Tracked(AncestorsOrSelf(state))

ActiveNext ==
    \/ \E t \in Triggers, d \in Data : FireCall(t, d)
    \/ FireFind
    \/ FireExit
    \/ FireAction
    \/ FireEntry
    \/ FireCommit
    \/ ActiveHierarchyCall

ActiveSpec == ActiveInit /\ [][ActiveNext]_vars

\* The exit step of the running Fire is about to run for s.
ExitStepFor(s) ==
    /\ pc = "fire_exit"
    /\ frame.i < Len(frame.sourceStates)
    /\ s = At(frame.sourceStates, frame.i)
    /\ ~(frame.lca # NoState /\ s = frame.lca)

\* The entry step of the running Fire is about to run for s: in the entry
\* loop, or for the target's initial substate.
EntryStepFor(s) ==
    \/ /\ pc = "fire_entry"
       /\ frame.i >= 0
       /\ s = At(frame.targetStates, frame.i)
       /\ ~(frame.lca # NoState /\ s = frame.lca)
    \/ /\ pc = "fire_initial"
       /\ s # NoState
       /\ s = initialStates[frame.transition.Next]

\* The steps of one Fire are consistent with the set: a state is exited only
\* while in it, entered only while not in it, and neither twice.
StepsConsistent(set) ==
    \A s \in States :
        /\ ExitStepFor(s) => s \in set /\ s \notin active.exited
        /\ EntryStepFor(s) => s \notin set /\ s \notin active.entered

\* C25 as stated: the set tracked since New equals the ancestor chain of
\* State() after every Fire, successful or not, and every exit and entry
\* step is consistent with it.
C25_Original ==
    /\ FireDone => active.all = AncestorsOrSelf(state)
    /\ StepsConsistent(active.all)

\* C25, amended: with the set taken as the ancestor chain of State() when a
\* Fire starts, a state is exited only while in the set, entered only while
\* not in it, neither twice, and after a successful Fire the set equals the
\* ancestor chain of State().
C25_ActiveSet ==
    /\ FireOK => active.fire = AncestorsOrSelf(state)
    /\ StepsConsistent(active.fire)

\* A successful Fire that exited a state, entered the target and entered the
\* target's initial substate.
C25_Witness ==
    /\ FireOK
    /\ active.exited # {}
    /\ state \in active.entered
    /\ \E T \in active.entered : initialStates[T] = state

(***************************************************************************)
(* C26.  A failing step aborts Fire at once: the hook or action that       *)
(* returned an error is the last callable of the call (after a failed      *)
(* onExit no onExit, action or onEntry runs, after a failed action no      *)
(* onEntry, after a failed onEntry no onEntry and no initial-substate      *)
(* entry), and Fire has returned an error built at that step in which      *)
(* errors.Is finds whatever it finds in the callable's error.              *)
(***************************************************************************)
Steps == {"OnExit", "Action", "OnEntry", "InitialOnEntry"}

\* The kinds of callable that run after a step of the given kind.
Later(kind) ==
    CASE kind = "OnExit" -> {"Action", "OnEntry", "InitialOnEntry"}
      [] kind = "Action" -> {"OnEntry", "InitialOnEntry"}
      [] kind = "OnEntry" -> {"InitialOnEntry"}
      [] OTHER -> {}

C26_FailureAborts ==
    /\ \A n \in 1 .. Len(trace) :
          trace[n].failed /\ trace[n].kind \in Steps =>
              /\ n = Len(trace)
              /\ FireFailed
              /\ ret.site = trace[n].kind
              /\ trace[n].err \subseteq ret.is
              /\ \A k \in Later(trace[n].kind) : Kinds(k) = {}
    /\ FireFailed /\ ret.site \in Steps =>
          /\ trace # <<>>
          /\ trace[Len(trace)].failed
          /\ trace[Len(trace)].kind = ret.site

\* An entry hook failed, with an error wrapping a sentinel, after an exit
\* hook and the action had run.
C26_Witness ==
    /\ FireFailed
    /\ ret.site = "OnEntry"
    /\ Kinds("OnExit") # {}
    /\ Kinds("Action") # {}
    /\ trace[Len(trace)].err # {}

(***************************************************************************)
(* C27.  m.state is written at one point of a successful Fire, after the   *)
(* last fallible step: while Fire runs, and whenever it invokes a guard,   *)
(* hook or action, State() is the state before the call; the state changes *)
(* only in the step by which Fire returns nil; a Fire that returns an      *)
(* error never changes it.                                                 *)
(***************************************************************************)
C27_SingleWrite ==
    /\ [](call.op = "Fire" =>
            /\ pc # "idle" => state = call.before
            /\ \A n \in 1 .. Len(trace) : trace[n].cur = call.before)
    /\ [][state' # state =>
            /\ call.op = "Fire"
            /\ pc = "fire_initial"
            /\ pc' = "idle"
            /\ ret' = NilError]_vars

\* A successful Fire that changed the state after a guard, an exit hook, an
\* action and the entry hook of the initial substate had run.
C27_Witness ==
    /\ FireOK
    /\ state # call.before
    /\ Kinds("Guard") # {}
    /\ Kinds("OnExit") # {}
    /\ Kinds("Action") # {}
    /\ trace[Len(trace)].kind = "InitialOnEntry"

(***************************************************************************)
(* C28.  Every Fire that gets to the action has run the exit step of the   *)
(* state the machine was in, first of all exit steps; a successful         *)
(* self-transition invokes the state's onExit, the action and the state's  *)
(* onEntry and no hook of a proper ancestor; a successful Fire to a        *)
(* descendant invokes the state's onExit and then its onEntry.             *)
(* (A hook is invoked where one is set.)                                   *)
(* Violated in a cyclic hierarchy, which Build returns: the state recurs   *)
(* in its own chain and is taken for the LCA, so that it is neither exited *)
(* nor entered; and in a hierarchy deeper than maxDepth, where the target  *)
(* chain is cut below the state, which is then exited and not re-entered.  *)
(***************************************************************************)
HookCalls(kind, s) == {n \in Kinds(kind) : trace[n].s = s}

C28_SourceExited ==
    LET S == call.before
    IN  /\ pc = "fire_action" =>
              /\ frame.i >= 1
              /\ At(frame.sourceStates, 0) = S
        /\ FireOK /\ stateHooks[S].OnExit =>
              /\ HookCalls("OnExit", S) # {}
              /\ \A n \in Kinds("OnExit") : n >= Min(HookCalls("OnExit", S))
        /\ FireOK /\ Target = S =>
              /\ Exited \subseteq {S}
              /\ {trace[n].s : n \in Kinds("OnEntry")} \subseteq {S}
              /\ stateHooks[S].OnEntry => HookCalls("OnEntry", S) # {}
              /\ \A n \in HookCalls("OnExit", S), k \in Kinds("Action"),
                     m \in HookCalls("OnEntry", S) : n < k /\ k < m
        /\ FireOK /\ S \in ProperAncestors(Target) /\ stateHooks[S].OnEntry =>
              /\ HookCalls("OnEntry", S) # {}
              /\ \A n \in HookCalls("OnExit", S), m \in HookCalls("OnEntry", S) : n < m

(***************************************************************************)
(* C29.  A successful Fire whose target T is a proper ancestor of the      *)
(* current state S invokes onExit for exactly S and the ancestors of S     *)
(* strictly below T, and neither onExit nor onEntry of T; when T declares  *)
(* an initial substate C, C's onEntry is invoked after the action and      *)
(* State() is C afterwards.  (A hook is invoked where one is set.)         *)
(* Violated in a hierarchy deeper than maxDepth or cyclic, which Build     *)
(* returns: T lies beyond the end of the source chain, no LCA is found and *)
(* T is entered.                                                           *)
(***************************************************************************)
C29_AncestorTarget ==
    LET S == call.before
        T == Target
        C == initialStates[T]
    IN  FireOK /\ T \in ProperAncestors(S) =>
            /\ Exited = {x \in Below(S, T) : stateHooks[x].OnExit}
            /\ HookCalls("OnExit", T) = {}
            /\ HookCalls("OnEntry", T) = {}
            /\ C # NoState =>
                  /\ state = C
                  /\ stateHooks[C].OnEntry =>
                        /\ HookCalls("InitialOnEntry", C) # {}
                        /\ \A k \in Kinds("Action"), n \in HookCalls("InitialOnEntry", C) : k < n

(***************************************************************************)
(* C30.  When no proper ancestor of the current state S is the target T or *)
(* an ancestor of T, a successful Fire invokes onExit for every state of   *)
(* the chain of S, from S up to and including its root, then the action,   *)
(* then onEntry for every state of the chain of T, from its root down to   *)
(* T.  (A hook is invoked where one is set.)                               *)
(* Violated in a hierarchy deeper than maxDepth, which Build returns: the  *)
(* chains are cut at maxDepth states, so that the states beyond are        *)
(* neither exited nor entered.                                             *)
(***************************************************************************)
\* The whole ancestor chain of s, s first.
WholeChain(s) == [k \in 1 .. ChainLen(s, stateCount) |-> Anc(s, k - 1)]

\* The states whose onEntry was invoked by the entry loop, in order.
EntryCalls ==
    LET ev == SelectSeq(trace, LAMBDA x : x.kind = "OnEntry")
    IN  [n \in 1 .. Len(ev) |-> ev[n].s]

NoLCA(S, T) == ProperAncestors(S) \cap AncestorsOrSelf(T) = {}

C30_NoLCA ==
    LET S == call.before
        T == Target
    IN  FireOK /\ NoLCA(S, T) =>
            /\ ExitCalls = SelectSeq(WholeChain(S), LAMBDA x : stateHooks[x].OnExit)
            /\ EntryCalls = SelectSeq(Rev(WholeChain(T)), LAMBDA x : stateHooks[x].OnEntry)
            /\ \A n \in Kinds("OnExit"), k \in Kinds("Action") : n < k
            /\ \A k \in Kinds("Action"), m \in Kinds("OnEntry") : k < m

(***************************************************************************)
(* C31.  Bubbling stops at the first valid transition even when its guard  *)
(* rejects: when the guard of the nearest valid entry reports an error,    *)
(* Fire returns the rejection, matching ErrTransitionRejected, and CanFire *)
(* returns false; that guard is the only callable invoked, and State() is  *)
(* as before, whatever a higher ancestor declares for the trigger.         *)
(***************************************************************************)
CanFireDone == pc = "idle" /\ call.op = "CanFire"

\* The proper ancestors of the resolving state with a valid entry for t.
HigherEntries(s, t) ==
    {a \in ProperAncestors(ResolvedAt(s, t)) \ {ResolvedAt(s, t)} : Entry(a, t).Valid}

C31_BubblingStops ==
    LET at == ResolvedAt(call.before, call.trigger)
        rejected == GuardRejects(call.before, call.trigger, call.data)
    IN  /\ FireDone /\ rejected =>
              /\ ret.site = "guard"
              /\ ErrTransitionRejected \in ret.is
              /\ Calls = <<[kind |-> "Guard", s |-> at]>>
              /\ state = call.before
        /\ CanFireDone /\ rejected =>
              /\ ret = Bool(FALSE)
              /\ Calls = <<[kind |-> "Guard", s |-> at]>>
              /\ state = call.before

\* Fire rejected by the guard of the nearest entry while a higher ancestor
\* declares an unguarded transition for the same trigger.
C31_Witness ==
    /\ FireDone
    /\ GuardRejects(call.before, call.trigger, call.data)
    /\ \E a \in HigherEntries(call.before, call.trigger) : ~Entry(a, call.trigger).Guard

(***************************************************************************)
(* C32.  Initial-substate resolution goes one level deep: after a          *)
(* successful Fire whose target P declares the initial substate C, State() *)
(* is C and the initial-substate step invokes the onEntry of C alone       *)
(* (where set), also when C declares an initial substate D of its own: D   *)
(* is not entered and State() is not D.                                    *)
(***************************************************************************)
C32_OneLevel ==
    LET P == Target
        C == initialStates[P]
        D == initialStates[C]
    IN  FireOK /\ C # NoState =>
            /\ state = C
            /\ \A n \in Kinds("InitialOnEntry") : trace[n].s = C
            /\ Cardinality(Kinds("InitialOnEntry")) = IF stateHooks[C].OnEntry THEN 1 ELSE 0
            /\ D # NoState /\ D # C =>
                  /\ state # D
                  /\ D \notin AncestorsOrSelf(P) => D \notin Entered

\* The target's initial substate was entered and declares an initial substate
\* with an entry hook of its own.
C32_Witness ==
    /\ FireOK
    /\ initialStates[Target] # NoState
    /\ Kinds("InitialOnEntry") # {}
    /\ initialStates[initialStates[Target]] # NoState
    /\ stateHooks[initialStates[initialStates[Target]]].OnEntry

(***************************************************************************)
(* New (lines 378-383), as an operation: before it there is no Machine.    *)
(***************************************************************************)
NoNew == [NoCall EXCEPT !.op = "none"]

NewInit ==
    /\ BuilderIdle
    /\ \E sc \in Scenarios :
         \E u \in {NoState} :
            /\ stateCount = sc.n
            /\ triggerCount = NumTriggers
            /\ stateParents = sc.parents
            /\ Acyclic
            /\ Shallow
            /\ initialStates \in {f \in [0 .. (sc.n - 1) -> sc.tos \cup {NoState}] :
                                     BuildAccepts(sc.n, sc.parents, f)}
            /\ stateHooks = [s \in 0 .. (sc.n - 1) |-> [OnEntry |-> s # u, OnExit |-> s # u]]
            /\ \E decls \in Declarations(sc, NumTriggers, u) :
                  /\ u = NoState \/ Len(decls) = 1
                  /\ transitions = doneAll(EmptyTable(sc.n, NumTriggers), decls, NumTriggers)
    /\ state = NoState
    /\ pc = "none"
    /\ frame = NoFrame
    /\ call = NoNew
    /\ ret = NilError
    /\ trace = <<>>
    /\ other = NoMachine
    /\ oracle = {}
    /\ descriptions = <<>>
    /\ active = NoActive

\* New resolving the initial substate of the state it is given.
NewCall_Resolves(initialState) ==
    /\ pc = "none"
    /\ pc' = "idle"
    /\ state' = FinalState(initialState)
    /\ call' = [NoCall EXCEPT !.arg = initialState]
    /\ UNCHANGED <<specVars, frame, ret, trace, active>>

\* New (lines 378-383): state: initialState.
NewCall(initialState) ==
    /\ pc = "none"
    /\ pc' = "idle"
    /\ state' = initialState
    /\ call' = [NoCall EXCEPT !.arg = initialState]
    /\ UNCHANGED <<specVars, frame, ret, trace, active>>

NewNext ==
    \/ \E s \in States : NewCall(s)
    \/ \E t \in Triggers, d \in Data : FireCall(t, d)
    \/ FireFind
    \/ FireExit
    \/ FireAction
    \/ FireEntry
    \/ FireCommit
    \/ \E t \in Triggers, d \in Data : CanFireCall(t, d)
    \/ CanFireFind
    \/ \E s \in States : IsIn(s)
    \/ ActiveHierarchyCall

NewSpec == NewInit /\ [][NewNext]_vars

(***************************************************************************)
(* C33.  New(spec, s) makes State() equal to s and invokes no hook; it     *)
(* does not resolve an initial substate of s.  State() then changes only   *)
(* in the step by which a Fire returns nil, so that the Machine rests in s *)
(* until its first successful Fire.                                        *)
(***************************************************************************)
C33_NewRests ==
    /\ [](call.op = "New" =>
            /\ pc = "idle"
            /\ state = call.arg
            /\ trace = <<>>)
    /\ [][pc # "none" /\ state' # state => call.op = "Fire" /\ ret' = NilError]_vars

\* New was given a state that declares an initial substate, both with entry
\* hooks.
C33_Witness ==
    /\ call.op = "New"
    /\ initialStates[state] # NoState
    /\ stateHooks[state].OnEntry
    /\ stateHooks[initialStates[state]].OnEntry

(***************************************************************************)
(* C34.  Resolution and membership agree: when the bubbling of Fire or of  *)
(* CanFire finds the transition on a state A, A is one of the states of    *)
(* ActiveHierarchy(), that is, IsIn(A) is true.                            *)
(* Violated in a hierarchy deeper than maxDepth, which Build returns: the  *)
(* bubbling follows the parent links without a bound, while IsIn and       *)
(* ActiveHierarchy see the first maxDepth states of the chain.             *)
(***************************************************************************)
\* The bubbling is about to resolve the trigger on state A.
ResolvesOn(A) ==
    /\ pc \in {"fire_find", "can_find"}
    /\ frame.st = A
    /\ findTransition(frame.trigger, A).err = "nil"

C34_ResolverIsActive ==
    \A A \in States : ResolvesOn(A) => Contains(ActiveHierarchy, A)

(***************************************************************************)
(* Transition definitions whose From, On and To values are any uint, among *)
(* them values that are no state or trigger of the builder.                *)
(***************************************************************************)
RangeNext ==
    \/ Transition
    \/ \E d \in 1 .. MaxHandles, from \in {0, builder.stateCount - 1},
          trigger \in {0, builder.triggerCount - 1, builder.triggerCount},
          to \in {0, builder.stateCount} :
          To(d, from, trigger, to)
    \/ \E tb \in 1 .. MaxHandles : WithGuard(tb)
    \/ Build

RangeSpec == BuilderInit /\ [][RangeNext]_vars

(***************************************************************************)
(* C35.  In the Specification a successful Build returns, the entry of a   *)
(* state s and a trigger t within the declared counts is valid only if a   *)
(* definition was made with From(s).On(t): no definition marks the entry   *)
(* of another pair.                                                        *)
(* Violated by a definition whose trigger is not below triggerCount: done  *)
(* computes from*triggerCount + trigger without a check and writes the     *)
(* entry of the next state.                                                *)
(***************************************************************************)
C35_OwnEntryOnly ==
    built.outcome = "returned" =>
        \A s \in 0 .. (built.declared.stateCount - 1),
           t \in 0 .. (built.declared.triggerCount - 1) :
            built.declared.transitions[s * built.declared.triggerCount + t].Valid =>
                \E k \in 1 .. Len(tbs) : tbs[k].from = s /\ tbs[k].trigger = t

(***************************************************************************)
(* C36.  The hierarchy walk of ActiveHierarchy, IsIn and Fire returns      *)
(* between 1 and maxDepth states: the first is the start state, each       *)
(* further one the parent of the one before, and the walk ends before      *)
(* maxDepth states only at a state without parent; on a longer or cyclic   *)
(* chain it returns the first maxDepth states and reports no error.        *)
(***************************************************************************)
BoundedWalk(h, s) ==
    /\ Len(h) \in 1 .. maxDepth
    /\ h[1] = s
    /\ \A k \in 2 .. Len(h) : h[k] = stateParents[h[k - 1]]
    /\ Len(h) < maxDepth => stateParents[h[Len(h)]] = NoState

C36_BoundedWalk ==
    /\ ActiveHierarchyDone =>
          /\ ret.site = "hierarchy"
          /\ BoundedWalk(ret.states, state)
    /\ IsInDone =>
          ret = Bool(\E k \in 0 .. (maxDepth - 1) : Anc(state, k) = call.arg)
    /\ pc = "fire_exit" =>
          /\ BoundedWalk(frame.sourceStates, state)
          /\ BoundedWalk(frame.targetStates, frame.transition.Next)

\* ActiveHierarchy returned maxDepth states of a longer chain.
C36_Witness ==
    /\ ActiveHierarchyDone
    /\ Len(ret.states) = maxDepth
    /\ stateParents[ret.states[maxDepth]] # NoState
    /\ Acyclic

(***************************************************************************)
(* C37.  For every state s and trigger t within the counts of a builder    *)
(* that NewSpecBuilder returned, transitionIndex(s, t) is s*triggerCount+t *)
(* and lies within the table, below stateCount*triggerCount, and distinct  *)
(* pairs have distinct indexes.                                            *)
(* Violated for counts whose product does not fit a uint: the table is     *)
(* made with the wrapped product as its length (C21), so that indexes of   *)
(* pairs within the counts lie outside it, and the index itself wraps.     *)
(***************************************************************************)
C37_IndexInRange ==
    made.outcome = "returned" =>
        LET n == builder.stateCount
            m == builder.triggerCount
            pairs == (0 .. (n - 1)) \X (0 .. (m - 1))
            idx(p) == transitionIndex(p[1], p[2], m)
        IN  /\ \A p \in pairs :
                  /\ idx(p) = p[1] * m + p[2]
                  /\ idx(p) < n * m
                  /\ idx(p) \in DOMAIN builder.transitions
            /\ Cardinality({idx(p) : p \in pairs}) = n * m

====
